---- MODULE Spec2Model ----
(***************************************************************************)
(* Bulk update with retry in taukit: DBStorage.bulk_update                 *)
(* (taukit/storage.py) and DBPersister.persist_many                        *)
(* (taukit/persistence.py), with the chunking utility slice_chunks         *)
(* (taukit/utils.py), the update-action mappers and the result merge.      *)
(*                                                                         *)
(* The store's bulk write (the executor) is the environment: each call     *)
(* either raises or returns.  Whether the collection acknowledges writes   *)
(* is fixed for a call: an acknowledged raw result carries every category, *)
(* an unacknowledged one none.                                             *)
(***************************************************************************)
EXTENDS Integers, Sequences, FiniteSets, TLC

\* ---------------------------------------------------------------- bounds
MaxLen == 3
MaxAttempts == 3
MaxBatch == 2
MaxCalls == 2
MaxComps == 2

\* ------------------------------------------------------- optional values
\* Python's None and a present value.
None == <<>>
Some(v) == <<v>>
IsNone(o) == o = <<>>
Val(o) == o[1]

\* --------------------------------------------------------------- records
\* The input of a call is the sequence of records 1..L; `bad` holds the
\* records the mapper cannot convert (for MongoStorage.updater: the record
\* has no identity field).  An item is a record mapped `depth` times.
Rec(r) == [rec |-> r, depth |-> 0]
Input(L) == [i \in 1..L |-> Rec(i)]

\* The instance defaults of batch_size: DBStorage None, MongoStorage and
\* DBPersister 0, or a positive size given to the constructor.
DefaultBatchSizes == {None, Some(0), Some(MaxBatch)}
BatchArgs == {None} \cup {Some(n) : n \in -1..MaxBatch}
UpdaterKinds == {"plain", "custom", "mongo"}

\* ------------------------------------------------------------ slice_chunks
RECURSIVE slice_loop(_, _, _, _)
slice_loop(x, n, l, out) ==
    IF x = <<>>
    THEN (IF l # <<>> THEN Append(out, l) ELSE out)
    ELSE LET l2 == Append(l, Head(x)) IN
         IF Len(l2) >= n
         THEN slice_loop(Tail(x), n, <<>>, Append(out, l2))
         ELSE slice_loop(Tail(x), n, l2, out)

\* slice_chunks without its trailing `if l: yield l`.
RECURSIVE slice_loop_no_tail(_, _, _, _)
slice_loop_no_tail(x, n, l, out) ==
    IF x = <<>>
    THEN out
    ELSE LET l2 == Append(l, Head(x)) IN
         IF Len(l2) >= n
         THEN slice_loop_no_tail(Tail(x), n, <<>>, Append(out, l2))
         ELSE slice_loop_no_tail(Tail(x), n, l2, out)

slice_chunks_no_tail(x, n) == slice_loop_no_tail(x, n, <<>>, <<>>)

slice_chunks(x, n) == slice_loop(x, n, <<>>, <<>>)

\* ----------------------------------------------------- chunk-size selection
\* `batch_size or self.batch_size`: an explicit 0 falls back to the default.
EffectiveBatchSize_Or(arg, default) ==
    IF IsNone(arg) \/ Val(arg) = 0 THEN default ELSE arg

\* batch_size = batch_size if batch_size is not None else self.batch_size
EffectiveBatchSize(arg, default) == IF IsNone(arg) THEN default ELSE arg

\* bulk_update: `if not batch_size or batch_size <= 0` (None and 0 are falsy)
BulkUpdateUnchunked(bs) == IsNone(bs) \/ Val(bs) = 0 \/ Val(bs) <= 0

BulkUpdateChunks(x, bs) ==
    IF BulkUpdateUnchunked(bs) THEN << x >> ELSE slice_chunks(x, Val(bs))

\* persist_many: `if batch_size <= 0` (None <= 0 is a TypeError)
PersistManyUnchunked(bs) == Val(bs) <= 0

PersistManyChunks(x, bs) ==
    IF PersistManyUnchunked(bs) THEN << x >> ELSE slice_chunks(x, Val(bs))

\* ---------------------------------------------------------------- mappers
\* One call of the updater on one item: [ok, item, piped, err].
\*   plain : DBStorage.updater with no processor and no _updater: the item
\*           is piped and returned as it is.
\*   custom: DBStorage.updater with an _updater: the item is piped, then
\*           wrapped by the _updater, which raises on a bad record.
\*   mongo : MongoStorage.updater: from_dict reads item.items(), which an
\*           operation descriptor does not have (raises before piping); the
\*           record is piped; then the identity field is popped, which
\*           raises when the record has none.
updater(kind, bad, item) ==
    CASE kind = "plain" ->
           [ok |-> TRUE, item |-> item, piped |-> 1, err |-> "none"]
      [] kind = "custom" ->
           IF item.depth = 0 /\ item.rec \in bad
           THEN [ok |-> FALSE, item |-> item, piped |-> 1, err |-> "MappingError"]
           ELSE [ok |-> TRUE, item |-> [item EXCEPT !.depth = @ + 1],
                 piped |-> 1, err |-> "none"]
      [] OTHER ->
           IF item.depth > 0
           THEN [ok |-> FALSE, item |-> item, piped |-> 0, err |-> "RemapError"]
           ELSE IF item.rec \in bad
           THEN [ok |-> FALSE, item |-> item, piped |-> 1, err |-> "MappingError"]
           ELSE [ok |-> TRUE, item |-> [item EXCEPT !.depth = 1],
                 piped |-> 1, err |-> "none"]

\* batch = [ self.updater(item) for item in batch ]: eager, stops at the
\* first item the updater raises on.  [ok, ops, piped, err]
RECURSIVE map_batch(_, _, _, _, _)
map_batch(kind, bad, batch, ops, piped) ==
    IF batch = <<>>
    THEN [ok |-> TRUE, ops |-> ops, piped |-> piped, err |-> "none"]
    ELSE LET u == updater(kind, bad, Head(batch)) IN
         IF u.ok
         THEN map_batch(kind, bad, Tail(batch), Append(ops, u.item), piped + u.piped)
         ELSE [ok |-> FALSE, ops |-> ops, piped |-> piped + u.piped, err |-> u.err]

\* action_hook(item): raises on a bad record, else the record's operation.
action_hook(bad, item) ==
    IF item.rec \in bad
    THEN [ok |-> FALSE, item |-> item]
    ELSE [ok |-> TRUE, item |-> [item EXCEPT !.depth = 1]]

\* bulk_ops = [ action_hook(item, **kwds) for item in items ]: `taken` is
\* the number of items drawn from `items` (the raising one included).
RECURSIVE hook_all(_, _, _, _)
hook_all(bad, its, ops, taken) ==
    IF its = <<>>
    THEN [ok |-> TRUE, ops |-> ops, taken |-> taken]
    ELSE LET h == action_hook(bad, Head(its)) IN
         IF h.ok
         THEN hook_all(bad, Tail(its), Append(ops, h.item), taken + 1)
         ELSE [ok |-> FALSE, ops |-> ops, taken |-> taken + 1]

\* ------------------------------------------------------------ result merge
NumKeys == {"nInserted", "nUpserted", "nMatched", "nModified", "nRemoved"}
ListKeys == {"writeErrors", "writeConcernErrors"}
Keys == ListKeys \cup NumKeys

ZeroResults == [k \in Keys |-> IF k \in ListKeys THEN <<>> ELSE 0]

\* The raw result of a bulk write of `ops` that the store acknowledged, and
\* of one it did not (bulk_api_result is then empty).
AckResult(ops) ==
    [k \in Keys |-> IF k \in ListKeys THEN <<>>
                    ELSE IF k = "nInserted" THEN Len(ops) ELSE 0]
UnackResult == << >>
RawResult(ack, ops) == IF ack THEN AckResult(ops) ELSE UnackResult

\* Another raw result the store may report for a bulk write of `ops` that
\* is group i of the call: operations that matched, modified, upserted and
\* removed documents and left errors.  The errors carry the group's number.
MixedResult(ops, i) ==
    [AckResult(ops) EXCEPT !["nInserted"] = 0,
                           !["nUpserted"] = 1,
                           !["nMatched"] = Len(ops),
                           !["nModified"] = Len(ops) + 1,
                           !["nRemoved"] = 2,
                           !["writeErrors"] = << i, i >>,
                           !["writeConcernErrors"] = << i >>]
RawResults(ack, ops, i) ==
    IF ack
    THEN {RawResult(ack, ops), MixedResult(ops, i)}
    ELSE {RawResult(ack, ops)}

\* `for k in results: results[k] += new_result[k]` raises KeyError on a
\* category the raw result lacks.
MergeRaises(new) == \E k \in Keys : k \notin DOMAIN new

\* The merge with `=` for `+=` on the numeric categories: the cumulative
\* counts are those of the last group only.
format_bulk_update_results_assign(results, new) ==
    LET base == IF IsNone(results) THEN ZeroResults ELSE Val(results) IN
    Some([k \in Keys |-> IF k \in ListKeys THEN base[k] \o new[k]
                         ELSE new[k]])

format_bulk_update_results(results, new) ==
    LET base == IF IsNone(results) THEN ZeroResults ELSE Val(results) IN
    Some([k \in Keys |-> IF k \in ListKeys THEN base[k] \o new[k]
                         ELSE base[k] + new[k]])

\* The merge with `=` for `+=` on the list categories: the errors of the
\* earlier groups are overwritten.
tk__persist_many_merge_results_assign(results, new) ==
    LET base == IF IsNone(results) THEN ZeroResults ELSE Val(results) IN
    Some([k \in Keys |-> IF k \in ListKeys THEN new[k]
                         ELSE base[k] + new[k]])

\* DocumentMixin.tk__persist_many_merge_results: the same merge, on the
\* bulk_api_result that tk__persist_many returns.
tk__persist_many_merge_results(results, new) ==
    LET base == IF IsNone(results) THEN ZeroResults ELSE Val(results) IN
    Some([k \in Keys |-> IF k \in ListKeys THEN base[k] \o new[k]
                         ELSE base[k] + new[k]])

\* ------------------------------------------------------------------ state
VARIABLES
    cls,               \* the object is a DBStorage or a DBPersister
    self_batch_size,   \* the instance's default batch size
    kind,              \* which updater the storage has
    acknowledged,      \* the collection acknowledges the call's writes
    items_counter,     \* Storage._items_counter
    pc,                \* idle, attempt, exec, returned, raised
    op,                \* bulk_update or persist_many
    items,             \* the records given to the call
    bad,               \* the records the mapper raises on
    src,               \* the input is a list, or a single-pass iterator
    rest,              \* what the single-pass iterator has not yielded yet
    arg_batch_size,    \* the batch_size argument of the call
    batch_size,        \* the local batch_size after the default is applied
    n_attempts,
    chunks,            \* the groups the for loop iterates
    ci,                \* index of the group being processed
    attempt,
    batch,             \* bulk_update's loop variable (rebound by the mapping)
    ops,               \* the operations handed to the executor
    results,           \* the cumulative result
    store,             \* the bulk writes the store has accepted, in order
    ret,               \* the value returned to the caller
    err,               \* the error raised to the caller
    calls,             \* history: every executor call [chunk, ops, ok, merged]
    map_fails,         \* history: the groups whose mapping raised
    n_logged,          \* history: number of failures logged
    call_no,           \* the number of the call on this object (1, 2, ...)
    results_obj,       \* identity of the dict `results` is bound to: the number
                       \* of the call that created it, 0 for None
    prev               \* what the caller holds from the last call that
                       \* returned a dict: [obj, val, snap], the dict's
                       \* identity, its content now and when it was returned

bulk_vars == << cls, self_batch_size, kind, acknowledged, items_counter, pc, op, items, bad,
                src, rest, arg_batch_size, batch_size, n_attempts, chunks, ci, attempt, batch,
                ops, results, store, ret, err, calls, map_fails, n_logged,
                call_no, results_obj, prev >>

\* ------------------------------------------------------- JSON-lines files
\* A JSONLinesStorage or JSONLinesPersister and the directory it writes to.
VARIABLES
    jl_cls,            \* JSONLinesStorage or JSONLinesPersister ("none": no such object)
    jl_filename,       \* the file name given to the object
    jl_if_exists,      \* FileStorage.if_exists (a persister always increments)
    jl_filepath,       \* self._filepath: None, or the number of the resolved path
    jl_fs,             \* the directory: path number -> [type, lines]; path 0 is
                       \* dirpath/filename, path n its n-th incremented name
    jl_counter,        \* Storage._items_counter / Persister.counter
    jl_given,          \* history: the items passed to save / persist
    jl_loaded,         \* what the last load() yielded (None: raised, or no load)
    jl_err,            \* the error of the last call, "none" if it returned
    jl_fresh           \* history: the file name was free at construction

jsonl_vars == << jl_cls, jl_filename, jl_if_exists, jl_filepath, jl_fs, jl_counter,
                 jl_given, jl_loaded, jl_err, jl_fresh >>

\* The items: dicts of JSON values, a datetime, a tuple, and a set (which
\* json cannot serialize).
PyItems == {[k |-> "dict", v |-> 1], [k |-> "dict", v |-> 2], [k |-> "datetime", v |-> 1],
            [k |-> "tuple", v |-> 1], [k |-> "set", v |-> 1]}

\* json.dumps(item, cls=JSONEncoder): dicts become objects, a tuple an
\* array, a datetime its isoformat string (JSONEncoder.default); any other
\* object raises TypeError.
dumps(item) ==
    CASE item.k = "dict" -> [ok |-> TRUE, text |-> [j |-> "object", v |-> item.v]]
      [] item.k = "tuple" -> [ok |-> TRUE, text |-> [j |-> "array", v |-> item.v]]
      [] item.k = "datetime" -> [ok |-> TRUE, text |-> [j |-> "string", v |-> item.v]]
      [] OTHER -> [ok |-> FALSE, text |-> [j |-> "none", v |-> 0]]

\* json.loads(line.strip(), cls=None): an object becomes a dict, an array a
\* list, a string a str.
loads(text) ==
    CASE text.j = "object" -> [k |-> "dict", v |-> text.v]
      [] text.j = "array" -> [k |-> "list", v |-> text.v]
      [] OTHER -> [k |-> "str", v |-> text.v]

\* utils._rx_file: the name ends in a dot followed by letters only.
FileNames == {"items.jl", "items"}
rx_file(name) == name = "items.jl"

Absent == [type |-> "absent", lines |-> <<>>]
Exists(fs, n) == n \in DOMAIN fs /\ fs[n].type # "absent"

\* utils.make_filepath: the first free path, counting up from the plain
\* name, or the plain name when inc_if_taken is false.
RECURSIVE inc_loop(_, _)
inc_loop(fs, n) == IF Exists(fs, n) THEN inc_loop(fs, n + 1) ELSE n
make_filepath(fs, inc_if_taken) == IF inc_if_taken THEN inc_loop(fs, 0) ELSE 0

\* utils.is_file: an existing path is asked, a free one judged by its name.
is_file(fs, n, name) == IF Exists(fs, n) THEN fs[n].type = "file" ELSE rx_file(name)

\* utils.make_path(path, create_dir=True): the directory of a file path
\* exists already; a path that is not a file path is created as a directory.
make_path(fs, n, name) ==
    IF ~is_file(fs, n, name) /\ ~Exists(fs, n)
    THEN [fs EXCEPT ![n] = [type |-> "dir", lines |-> <<>>]]
    ELSE fs

JsonlOff ==
    /\ jl_cls = "none"
    /\ jl_filename = "items.jl"
    /\ jl_if_exists = "inc"
    /\ jl_filepath = None
    /\ jl_fs = [n \in 0..MaxLen |-> Absent]
    /\ jl_counter = 0
    /\ jl_given = <<>>
    /\ jl_loaded = None
    /\ jl_err = "none"
    /\ jl_fresh = TRUE

\* ------------------------------------------------- Composable delegation
\* An instance of a class made by Composable, and one attribute lookup
\* that the normal lookup has failed.
VARIABLES
    c_inst,            \* self.__components: the instance-level components
    c_own,             \* the class-level components of the object's class
    c_base1,           \* those of the first class of __bases__
    c_base2,           \* those of the second class of __bases__
    c_grand,           \* those of a base class of the first base class
    c_attr,            \* the attribute looked up
    c_out              \* None, or what __getattr__ did: [ok, level, idx, how]

compose_vars == << c_inst, c_own, c_base1, c_base2, c_grand, c_attr, c_out >>

\* A component is given by the set of attributes it has; its name is fixed
\* by where it is declared.  Names are unique over one object: __new__ and
\* _setcomponents raise on a name the class or the instance already has.
CompNames ==
    [instance |-> << "i1", "i2", "i3" >>, own |-> << "c1", "c2", "c3" >>,
     base1 |-> << "p1" >>, base2 |-> << "q1" >>, grand |-> << "g1" >>]
HasSets == {{}, {"x"}, {"c1"}}
LookedUp == {"x", "c1"}

\* The sequences of at most n components.
CompSeqs(n) == UNION {[1..k -> HasSets] : k \in 0..n}

\* `.items()` of the components of one level, in declared order.
LevelItems(seq, level) ==
    [i \in 1..Len(seq) |->
        [nm |-> CompNames[level][i], has |-> seq[i], level |-> level, idx |-> i]]

\* The loop of _getattr: the first component that is named by the
\* attribute or has it.
RECURSIVE first_component(_, _)
first_component(components, attr) ==
    IF components = <<>>
    THEN [ok |-> FALSE, level |-> "none", idx |-> 0, how |-> "AttributeError"]
    ELSE LET c == Head(components) IN
         IF c.nm = attr
         THEN [ok |-> TRUE, level |-> c.level, idx |-> c.idx, how |-> "component"]
         ELSE IF attr \in c.has
         THEN [ok |-> TRUE, level |-> c.level, idx |-> c.idx, how |-> "attribute"]
         ELSE first_component(Tail(components), attr)

\* _getattr with the class-level components searched before the
\* instance-level ones.
_getattr_class_first(inst, own, base1, base2, attr) ==
    first_component(LevelItems(own, "own") \o LevelItems(base1, "base1")
                        \o LevelItems(base2, "base2") \o LevelItems(inst, "instance"),
                    attr)

\* metacls._getattr: the instance-level components, those under the
\* object's own class name, then for the class and each class of its
\* __bases__ the components under that class's name.
_getattr(inst, own, base1, base2, attr) ==
    first_component(LevelItems(inst, "instance") \o LevelItems(own, "own")
                        \o LevelItems(own, "own") \o LevelItems(base1, "base1")
                        \o LevelItems(base2, "base2"),
                    attr)

ComposeOff ==
    /\ c_inst = <<>>
    /\ c_own = <<>>
    /\ c_base1 = <<>>
    /\ c_base2 = <<>>
    /\ c_grand = <<>>
    /\ c_attr = "x"
    /\ c_out = None

\* ------------------------------------------------ update-action mapper
\* A DBStorage or MongoStorage without custom updater or processor, its
\* model class, and calls of its updater on one record.
VARIABLES
    m_cls,             \* DBStorage or MongoStorage ("none": no such object)
    m_model,           \* the model class: which field is its identity field
    m_count_items,     \* Storage.count_items
    m_counter,         \* Storage._items_counter
    m_record,          \* the dict passed to updater
    m_given,           \* history: the record as it was when first passed
    m_outs             \* history: what each call returned or raised

mapper_vars == << m_cls, m_model, m_count_items, m_counter, m_record, m_given, m_outs >>

\* Dicts are sets of <<key, value>> pairs, values are <<type, text>>.
DictKeys(d) == {p[1] : p \in d}
Get(d, k) == (CHOOSE p \in d : p[1] = k)[2]

\* The model classes: the mongoengine default (identity field `id`), one
\* with a primary-key field `key`, and one with the default identity field
\* that overrides _ignore_fields so as to keep `id`.
Models == {"default", "primary_key", "keep_id"}
IdName(model) == IF model = "primary_key" THEN "key" ELSE "id"
Fields(model) == {IdName(model), "title", "rating"}
ignore_fields(model) == IF model = "keep_id" THEN {} ELSE {"_id", "id"}

\* DocumentMixin._get_fields_defs and get_schema: the fields that are not
\* ignored.
get_schema(model) == Fields(model) \ ignore_fields(model)

\* The `coerce` of a field's schema: int for `rating` (an IntField), which
\* raises on text that is no number; str for the string fields; none for
\* the ObjectIdField `id`.
CoerceRaises(k, v) == k = "rating" /\ v[2] = "abc"
coerce(k, v) == IF k = "rating" THEN << "int", v[2] >> ELSE v

\* DocumentMixin.from_dict(dct, only_dict=True), with the class defaults
\* _schema_allow_unknown = False and _schema_purge_unknown = True: keys that
\* are not in the schema are dropped, the other values coerced into a new
\* dict.
from_dict(model, dct) ==
    LET known == {p \in dct : p[1] \in get_schema(model)} IN
    IF \E p \in known : CoerceRaises(p[1], p[2])
    THEN [ok |-> FALSE, doc |-> {}]
    ELSE [ok |-> TRUE, doc |-> {<< p[1], coerce(p[1], p[2]) >> : p \in known}]

\* Storage.pipe_item counting an item twice.
pipe_item_twice(count_items, counter) == IF count_items THEN counter + 2 ELSE counter

\* Storage.pipe_item: the item is counted (and reported) when count_items.
pipe_item(count_items, counter) == IF count_items THEN counter + 1 ELSE counter

\* DBStorage.updater without processor and custom updater: the item is
\* piped and returned as it is.
DBStorage_updater(count_items, counter, item) ==
    [ok |-> TRUE, err |-> "none", counter |-> pipe_item(count_items, counter),
     filter |-> {}, set |-> item]

\* MongoStorage.updater without custom updater: from_dict, the base
\* updater, then UpdateOne(filter={_id: item.pop(_id)}, update={'$set': item}).
MongoStorage_updater(model, count_items, counter, item) ==
    LET d == from_dict(model, item) IN
    IF ~d.ok
    THEN [ok |-> FALSE, err |-> "ValueError", counter |-> counter, filter |-> {}, set |-> {}]
    ELSE LET u == DBStorage_updater(count_items, counter, d.doc)
             id == IdName(model)
         IN  IF id \notin DictKeys(u.set)
             THEN [ok |-> FALSE, err |-> "KeyError", counter |-> u.counter,
                   filter |-> {}, set |-> {}]
             ELSE [ok |-> TRUE, err |-> "none", counter |-> u.counter,
                   filter |-> {<< id, Get(u.set, id) >>},
                   set |-> {p \in u.set : p[1] # id}]

MapperOff ==
    /\ m_cls = "none"
    /\ m_model = "default"
    /\ m_count_items = TRUE
    /\ m_counter = 0
    /\ m_record = {}
    /\ m_given = {}
    /\ m_outs = <<>>

\* ------------------------------------------------------------ FTP storage
\* An FTPStorage and the server it talks to.  A directory path is the
\* sequence of its components, relative to the login directory.
VARIABLES
    ftp_state,         \* "none": no such object; "new": __init__ has not run;
                       \* "ready": __init__ returned; "failed": __init__ raised
    ftp_arg,           \* the dirpath argument of the constructor
    ftp_attrs,         \* the instance attributes assigned so far
    ftp_dirpath,       \* self.dirpath
    ftp_conn,          \* self._ftp: "None", an "open" or a "closed" client
    ftp_cwd,           \* the working directory of the current client
    ftp_tree,          \* the directories on the server
    ftp_readonly,      \* the server refuses MKD
    ftp_opened,        \* history: number of clients constructed
    ftp_closed,        \* history: number of close() calls
    ftp_log,           \* history: the STOR commands the server received
    ftp_last,          \* history: the last call when it was a save_item,
                       \* [dtype, conn, n]: its dtype, and self._ftp and
                       \* Len(ftp_log) when it was made
    ftp_err            \* the error of the last call, "none" if it returned

ftp_vars == << ftp_state, ftp_arg, ftp_attrs, ftp_dirpath, ftp_conn, ftp_cwd, ftp_tree,
               ftp_readonly, ftp_opened, ftp_closed, ftp_log, ftp_last, ftp_err >>

MaxConns == 3

DirPaths == {<< "a" >>, << "a", "b" >>}
DTypes == {"binary", "BINARY", "text", "Text", "json"}

\* str.lower on the data types
lower(dtype) ==
    CASE dtype = "BINARY" -> "binary"
      [] dtype = "Text" -> "text"
      [] OTHER -> dtype

\* The statements of FTPStorage.__init__ after super().__init__, in order:
\* five assignments, the call set_dirpath(dirpath, create=True) (which
\* assigns self.dirpath), and the assignment of self.ftp_kws.
InitOrder == << "host", "user", "passwd", "ftp", "_ftp", "dirpath", "ftp_kws" >>

\* The attributes __enter__ reads.
EnterReads == {"ftp", "host", "user", "passwd", "ftp_kws"}

\* __enter__: reading an attribute that was never assigned raises
\* AttributeError; otherwise a new client is constructed and bound to
\* self._ftp (the client bound before is not closed).
FTPStorage_enter(st) ==
    IF ~(EnterReads \subseteq st.attrs)
    THEN [st EXCEPT !.err = "AttributeError"]
    ELSE [st EXCEPT !.conn = "open", !.cwd = << >>, !.opened = @ + 1]

\* __exit__: self._ftp.close(); the exception of the block propagates.
FTPStorage_exit(st) == [st EXCEPT !.conn = "closed", !.closed = @ + 1]

\* FTP.cwd and FTP.mkd of the client
cwd(st, tail) ==
    IF Append(st.cwd, tail) \in st.tree
    THEN [st EXCEPT !.cwd = Append(@, tail)]
    ELSE [st EXCEPT !.err = "error_perm"]

mkd(st, tail, readonly) ==
    IF readonly \/ Append(st.cwd, tail) \in st.tree
    THEN [st EXCEPT !.err = "error_perm"]
    ELSE [st EXCEPT !.tree = @ \cup {Append(st.cwd, tail)}]

\* The inner _move of FTPStorage.move with clb=None: the head of the path
\* first, then cwd(tail), and on an error mkd(tail) and cwd(tail) when
\* create is set, the error otherwise.
RECURSIVE _move(_, _, _, _)
_move(st, dirpath, create, readonly) ==
    LET head == SubSeq(dirpath, 1, Len(dirpath) - 1)
        tail == dirpath[Len(dirpath)]
        s1 == IF Len(head) > 0 THEN _move(st, head, create, readonly) ELSE st
        s2 == cwd(s1, tail)
        s3 == mkd(s1, tail, readonly)
    IN  IF s1.err # "none" THEN s1
        ELSE IF s2.err = "none" THEN s2
        ELSE IF ~create THEN s2
        ELSE IF s3.err # "none" THEN s3
        ELSE cwd(s3, tail)

\* FTPStorage.move: `with self: _move(...)`.  When __enter__ raises the
\* block and __exit__ do not run.
move(st, dirpath, create, readonly) ==
    LET s1 == FTPStorage_enter(st) IN
    IF s1.err # "none" THEN s1
    ELSE FTPStorage_exit(_move(s1, dirpath, create, readonly))

\* FTPStorage.set_dirpath
set_dirpath(st, dirpath, create, readonly) ==
    LET s1 == [st EXCEPT !.attrs = @ \cup {"dirpath"}, !.dirpath = dirpath] IN
    IF ~IsNone(dirpath) /\ create THEN move(s1, Val(dirpath), TRUE, readonly) ELSE s1

\* FTPStorage.__init__: the statements of InitOrder from the i-th on, up
\* to the first that raises.
RECURSIVE init_steps(_, _, _, _)
init_steps(st, i, dirpath, readonly) ==
    IF i > Len(InitOrder) \/ st.err # "none" THEN st
    ELSE LET a == InitOrder[i]
             s1 == IF a = "dirpath" THEN set_dirpath(st, dirpath, TRUE, readonly)
                   ELSE [st EXCEPT !.attrs = @ \cup {a},
                                   !.conn = IF a = "_ftp" THEN "None" ELSE @]
         IN  init_steps(s1, i + 1, dirpath, readonly)

\* FTPStorage.save_item: the two `if` statements one after the other.  A
\* STOR needs an open client: None has no storbinary / storlines, and a
\* closed client has no socket (AttributeError in both cases).
FTPStorage_save_item(conn, log, dtype) ==
    LET bin == lower(dtype) = "binary"
        txt == lower(dtype) = "text"
        l1 == IF bin /\ conn = "open" THEN Append(log, "storbinary") ELSE log
        l2 == IF txt /\ conn = "open" THEN Append(l1, "storlines") ELSE l1
    IN  IF bin /\ conn # "open" THEN [log |-> log, err |-> "AttributeError"]
        ELSE IF txt
             THEN IF conn # "open" THEN [log |-> l1, err |-> "AttributeError"]
                  ELSE [log |-> l2, err |-> "none"]
             ELSE [log |-> l1, err |-> "ValueError"]

FtpOff ==
    /\ ftp_state = "none"
    /\ ftp_arg = None
    /\ ftp_attrs = {}
    /\ ftp_dirpath = None
    /\ ftp_conn = "None"
    /\ ftp_cwd = << >>
    /\ ftp_tree = {}
    /\ ftp_readonly = FALSE
    /\ ftp_opened = 0
    /\ ftp_closed = 0
    /\ ftp_log = << >>
    /\ ftp_last = None
    /\ ftp_err = "none"

\* ----------------------------------------------------------- start requests
\* A spider with TauSpiderMixin and the generator start_requests() returns.
VARIABLES
    sp_state,          \* "none": no spider; the generator is "suspended"
                       \* (created, or at its yield), has "ended" or "raised"
    sp_urls,           \* self.start_urls: each URL [domain, fails], its domain
                       \* and whether make_request raises for it
    sp_limit,          \* self.limit
    sp_allowed,        \* self.start_urls_allowed_domains (None: no attribute)
    sp_pos,            \* the number of URLs the for loop has taken
    sp_n,              \* the local n
    sp_request,        \* the local request: None while unbound, else the
                       \* number of the URL it was made from
    sp_out,            \* history: the requests yielded, [request, url]: the
                       \* request and the URL of the iteration that yielded it
    sp_logged,         \* history: the URLs whose failure was logged
    sp_err             \* the error the generator raised, "none" if none

spider_vars == << sp_state, sp_urls, sp_limit, sp_allowed, sp_pos, sp_n, sp_request,
                  sp_out, sp_logged, sp_err >>

MaxUrls == 3

Domains == {"in.org", "off.org"}
Urls == [domain : Domains, fails : BOOLEAN]
UrlLists == UNION {[1..n -> Urls] : n \in 0..MaxUrls}
Limits == {None} \cup {Some(k) : k \in 0..(MaxUrls - 1)}

\* webscraping.utils.is_url_in_domains
is_url_in_domains(url, domains) ==
    IF IsNone(domains) \/ Val(domains) = {} THEN TRUE
    ELSE url.domain \in Val(domains)

\* The truth value start_requests takes of self.limit, and its test
\* `self.limit and n > self.limit`.
limit_reached_unless_zero(limit, n) == ~IsNone(limit) /\ Val(limit) # 0 /\ n > Val(limit)

\* start_requests resumed (by next() on the generator) with `taken` URLs
\* consumed: the for loop runs on to its next yield, its end or an error.
\* Every accepted URL is counted; when make_request raises, the failure is
\* logged and the yield statement still runs, with the local request as it
\* is: unbound (UnboundLocalError) or bound by an earlier iteration.
RECURSIVE start_requests_resume(_, _, _, _, _, _, _)
start_requests_resume(urls, allowed, limit, taken, n, request, logged) ==
    LET pos == taken + 1
        end(status, exc) ==
            [status |-> status, err |-> exc, pos |-> taken, n |-> n, request |-> request,
             logged |-> logged, yielded |-> None]
    IN  IF urls = << >> THEN end("raised", "NotImplementedError")
        ELSE IF pos > Len(urls) THEN end("ended", "none")
        ELSE IF ~IsNone(allowed) /\ ~is_url_in_domains(urls[pos], allowed)
        THEN start_requests_resume(urls, allowed, limit, pos, n, request, logged)
        ELSE IF limit_reached_unless_zero(limit, n + 1)
        THEN [end("ended", "none") EXCEPT !.pos = pos, !.n = n + 1]
        ELSE IF ~urls[pos].fails
        THEN [status |-> "suspended", err |-> "none", pos |-> pos, n |-> n + 1,
              request |-> Some(pos), logged |-> logged,
              yielded |-> Some([request |-> pos, url |-> pos])]
        ELSE IF IsNone(request)
        THEN [status |-> "raised", err |-> "UnboundLocalError", pos |-> pos, n |-> n + 1,
              request |-> request, logged |-> Append(logged, pos), yielded |-> None]
        ELSE [status |-> "suspended", err |-> "none", pos |-> pos, n |-> n + 1,
              request |-> request, logged |-> Append(logged, pos),
              yielded |-> Some([request |-> Val(request), url |-> pos])]

SpiderOff ==
    /\ sp_state = "none"
    /\ sp_urls = << >>
    /\ sp_limit = None
    /\ sp_allowed = None
    /\ sp_pos = 0
    /\ sp_n = 0
    /\ sp_request = None
    /\ sp_out = << >>
    /\ sp_logged = << >>
    /\ sp_err = "none"

\* ------------------------------------------------- offsite final-URL filter
\* OffsiteFinalUrlDownloaderMiddleware.process_response on one response.
VARIABLES
    mw_state,          \* "none": no response; "pending": a response has
                       \* arrived; "done": process_response has ended
    mw_url,            \* response.url: [domain, path]
    mw_allowed,        \* spider.allowed_domains (None: no attribute)
    mw_blacklist,      \* spider.blacklist_urls: None, or a list of entries,
                       \* [kind |-> "str", url] or [kind |-> "regex", pat]
    mw_out             \* "response" when it was returned, else the error raised

mw_vars == << mw_state, mw_url, mw_allowed, mw_blacklist, mw_out >>

MaxBlacklist == 2

FinalUrls == [domain : Domains, path : {"/", "/ads"}]
Patterns == {"ads", "^ftp:"}
BlacklistEntries == [kind : {"str"}, url : FinalUrls] \cup [kind : {"regex"}, pat : Patterns]
Blacklists == {None} \cup {Some(l) : l \in UNION {[1..n -> BlacklistEntries] : n \in 0..MaxBlacklist}}

\* re.search of a compiled pattern in a URL: 'ads' is found in the URLs of
\* path /ads, '^ftp:' in none.
search(pat, url) == pat = "ads" /\ url.path = "/ads"

\* The blacklist loop of process_response from its i-th entry on:
\* `(isinstance(bad_url, str) and url == bad_url) or bad_url.search(url)`.
\* For a string that is not the URL the right operand is evaluated, and a
\* str has no attribute search.
RECURSIVE blacklist_check(_, _, _)
blacklist_check(blacklist, url, i) ==
    IF i > Len(blacklist) THEN "response"
    ELSE LET bad_url == blacklist[i] IN
         IF bad_url.kind = "str"
         THEN IF url = bad_url.url THEN "IgnoreRequest" ELSE "AttributeError"
         ELSE IF search(bad_url.pat, url) THEN "IgnoreRequest"
              ELSE blacklist_check(blacklist, url, i + 1)

\* process_response: the offsite check, then the blacklist check (a
\* blacklist_urls of None cannot be iterated).
process_response(url, allowed_domains, blacklist_urls) ==
    IF ~is_url_in_domains(url, allowed_domains) THEN "IgnoreRequest"
    ELSE IF IsNone(blacklist_urls) THEN "TypeError"
    ELSE blacklist_check(Val(blacklist_urls), url, 1)

MiddlewareOff ==
    /\ mw_state = "none"
    /\ mw_url = [domain |-> "in.org", path |-> "/"]
    /\ mw_allowed = None
    /\ mw_blacklist = Some(<< >>)
    /\ mw_out = "none"

\* ------------------------------------------------------------ schema cache
\* Three document classes, Child and Sibling subclasses of Parent, and the
\* class attribute _schema of each.
VARIABLES
    sc_state,          \* "none": no such classes; "defined": they exist
    sc_fields,         \* cls._fields of each class (inherited fields included)
    sc_schema,         \* the _schema each class has in its own namespace: None
                       \* when it has none, else the field names of the schema
    sc_calls           \* history: the get_schema calls, [cls, args, ret]

schema_vars == << sc_state, sc_fields, sc_schema, sc_calls >>

Classes == {"Parent", "Child", "Sibling"}
base(c) == IF c = "Parent" THEN "DocumentMixin" ELSE "Parent"
SchemaArgs == {{}, {"title"}}

\* The attribute lookup cls._schema: the class's own, else the one of the
\* class it derives from; DocumentMixin._schema is None.
class_schema(schemas, c) ==
    IF ~IsNone(schemas[c]) THEN schemas[c]
    ELSE IF base(c) \in Classes THEN schemas[base(c)]
    ELSE None

\* DocumentMixin._get_fields_defs with the class default _ignore_fields
_get_fields_defs(fields, args) == fields \ ({"_id", "id"} \cup args)

\* DocumentMixin.get_schema(*args) on class c: [ret, schemas].  A schema
\* that is None or empty is computed and bound to c._schema; any other is
\* returned as found.
DocumentMixin_get_schema(schemas, fields, c, args) ==
    LET found == class_schema(schemas, c) IN
    IF IsNone(found) \/ Val(found) = {}
    THEN LET schema == _get_fields_defs(fields[c], args) IN
         [ret |-> schema, schemas |-> [schemas EXCEPT ![c] = Some(schema)]]
    ELSE [ret |-> Val(found), schemas |-> schemas]

SchemaOff ==
    /\ sc_state = "none"
    /\ sc_fields = [c \in Classes |-> {}]
    /\ sc_schema = [c \in Classes |-> None]
    /\ sc_calls = << >>

\* ---------------------------------------------------------------- Singleton
\* Two classes with the metaclass Singleton, B a subclass of A, and the
\* attribute `instance` of each.
VARIABLES
    sg_state,          \* "none": no such classes; "defined": they exist
    sg_falsy,          \* the classes whose instances are false in a boolean
                       \* context (they define __bool__ or __len__)
    sg_instance,       \* the `instance` each class has in its own namespace:
                       \* None when it has none, else the object [cls, no]
    sg_made,           \* number of objects constructed
    sg_calls           \* history: the calls, [cls, ret, built]: the class
                       \* called, the object returned (None: the constructor
                       \* raised) and whether the constructor ran

singleton_vars == << sg_state, sg_falsy, sg_instance, sg_made, sg_calls >>

MaxNew == 3

SingletonClasses == {"A", "B"}

\* The attribute lookup cls.instance: the class's own, else the one of its
\* base class, else the metaclass's, which is None.
class_instance(instances, c) ==
    IF ~IsNone(instances[c]) THEN instances[c]
    ELSE IF c = "B" THEN instances["A"]
    ELSE None

\* bool(cls.instance)
truthy(falsy, found) == ~IsNone(found) /\ Val(found).cls \notin falsy

\* Singleton.__call__ on class c, when the constructor raises (raises) or
\* returns the object numbered no: [ret, instances, built].
Singleton_call(instances, falsy, c, no, raises) ==
    LET found == class_instance(instances, c) IN
    IF truthy(falsy, found)
    THEN [ret |-> found, instances |-> instances, built |-> FALSE]
    ELSE IF raises
    THEN [ret |-> None, instances |-> instances, built |-> TRUE]
    ELSE LET new == Some([cls |-> c, no |-> no]) IN
         [ret |-> new, instances |-> [instances EXCEPT ![c] = new], built |-> TRUE]

SingletonOff ==
    /\ sg_state = "none"
    /\ sg_falsy = {}
    /\ sg_instance = [c \in SingletonClasses |-> None]
    /\ sg_made = 0
    /\ sg_calls = << >>

\* The variables of the models added to the first four, and the predicate
\* that none of them is in use.
more_vars == << ftp_vars, spider_vars, mw_vars, schema_vars, singleton_vars >>
MoreOff == FtpOff /\ SpiderOff /\ MiddlewareOff /\ SchemaOff /\ SingletonOff

core_vars == << bulk_vars, jsonl_vars, compose_vars, mapper_vars >>
not_ftp == << core_vars, spider_vars, mw_vars, schema_vars, singleton_vars >>
not_spider == << core_vars, ftp_vars, mw_vars, schema_vars, singleton_vars >>
not_mw == << core_vars, ftp_vars, spider_vars, schema_vars, singleton_vars >>
not_schema == << core_vars, ftp_vars, spider_vars, mw_vars, singleton_vars >>
not_singleton == << core_vars, ftp_vars, spider_vars, mw_vars, schema_vars >>

parts == << jsonl_vars, compose_vars, mapper_vars, more_vars >>

vars == << bulk_vars, parts >>

config == << cls, self_batch_size, kind >>
call_args == << op, items, bad, src, arg_batch_size, batch_size, n_attempts, chunks,
               acknowledged, call_no >>

InitBulk ==
    /\ \/ cls = "DBStorage" /\ kind \in UpdaterKinds
       \/ cls = "DBPersister" /\ kind = "none"
    /\ self_batch_size \in DefaultBatchSizes
    /\ acknowledged = TRUE
    /\ items_counter = 0
    /\ pc = "idle"
    /\ op = "none"
    /\ items = <<>>
    /\ bad = {}
    /\ src = "list"
    /\ rest = <<>>
    /\ arg_batch_size = None
    /\ batch_size = None
    /\ n_attempts = 0
    /\ chunks = <<>>
    /\ ci = 0
    /\ attempt = 0
    /\ batch = <<>>
    /\ ops = <<>>
    /\ results = None
    /\ store = <<>>
    /\ ret = None
    /\ err = "none"
    /\ calls = <<>>
    /\ map_fails = <<>>
    /\ n_logged = 0
    /\ call_no = 1
    /\ results_obj = 0
    /\ prev = None

\* No bulk operation is in hand.
BulkOff ==
    /\ InitBulk
    /\ cls = "DBStorage"
    /\ kind = "plain"
    /\ self_batch_size = None

Init == InitBulk /\ JsonlOff /\ ComposeOff /\ MapperOff /\ MoreOff

CoreOff == BulkOff /\ JsonlOff /\ ComposeOff /\ MapperOff
NotFtpOff == CoreOff /\ SpiderOff /\ MiddlewareOff /\ SchemaOff /\ SingletonOff
NotSpiderOff == CoreOff /\ FtpOff /\ MiddlewareOff /\ SchemaOff /\ SingletonOff
NotMiddlewareOff == CoreOff /\ FtpOff /\ SpiderOff /\ SchemaOff /\ SingletonOff
NotSchemaOff == CoreOff /\ FtpOff /\ SpiderOff /\ MiddlewareOff /\ SingletonOff
NotSingletonOff == CoreOff /\ FtpOff /\ SpiderOff /\ MiddlewareOff /\ SchemaOff

\* ------------------------------------------------------------ control flow
\* The head of `for batch in items` at group i: bind the next group, or
\* fall out of the loop and `return results`.
ForLoop(chs, i, res) ==
    IF i <= Len(chs)
    THEN /\ ci' = i
         /\ attempt' = 0
         /\ batch' = chs[i]
         /\ pc' = "attempt"
         /\ ret' = ret
    ELSE /\ ci' = i
         /\ attempt' = 0
         /\ batch' = <<>>
         /\ pc' = "returned"
         /\ ret' = res

\* The except clause of both loops: count the attempt, log it, and re-raise
\* when no attempt is left; else go round the while loop again.
Except(exc) ==
    /\ attempt' = attempt + 1
    /\ n_logged' = n_logged + 1
    /\ IF attempt + 1 >= n_attempts
       THEN pc' = "raised" /\ err' = exc
       ELSE pc' = "attempt" /\ err' = err
    /\ UNCHANGED << ci, ret, results, results_obj, prev >>

\* The merge rebinds `results` to a new dict when it was None, and else
\* changes the dict it is bound to in place (`results[k] += ...`): whoever
\* holds that dict sees the change.
MergeInPlace(merged) ==
    /\ results' = merged
    /\ results_obj' = IF IsNone(results) THEN call_no ELSE results_obj
    /\ prev' = IF ~IsNone(prev) /\ Val(prev).obj = results_obj'
               THEN Some([Val(prev) EXCEPT !.val = Val(merged)])
               ELSE prev

\* A further call on the same object, after the last one ended: the caller
\* keeps the dict the last call returned; the histories start afresh.
NewCall ==
    /\ pc \in {"returned", "raised"}
    /\ call_no < MaxCalls
    /\ call_no' = call_no + 1
    /\ prev' = IF pc = "returned" /\ ~IsNone(ret)
               THEN Some([obj |-> results_obj, val |-> Val(ret), snap |-> Val(ret)])
               ELSE prev
    /\ ops' = <<>>
    /\ store' = <<>>
    /\ calls' = <<>>
    /\ map_fails' = <<>>
    /\ n_logged' = 0
    /\ UNCHANGED << parts, config, items_counter >>

\* ------------------------------------------------------------ bulk_update
\* bulk_update with `results = None` (storage.py:299) left out, the
\* cumulative result living on from call to call.
BulkUpdateEnter_KeepResults(Ls, Bs, As, Ns) ==
    /\ \E L \in Ls, b \in Bs, a \in As, n \in Ns, w \in BOOLEAN :
         /\ b \subseteq 1..L
         /\ acknowledged' = w
         /\ op' = "bulk_update"
         /\ items' = Input(L)
         /\ bad' = b
         /\ src' = "list"
         /\ rest' = <<>>
         /\ arg_batch_size' = a
         /\ n_attempts' = n
         /\ batch_size' = EffectiveBatchSize(a, self_batch_size)
         /\ chunks' = BulkUpdateChunks(items', batch_size')
    /\ results' = results
    /\ results_obj' = results_obj
    /\ err' = "none"
    /\ ForLoop(chunks', 1, results)

\* The head of bulk_update, up to the first group: the arguments are drawn
\* from the given sets.
BulkUpdateEnter(Ls, Bs, As, Ns) ==
    /\ \E L \in Ls, b \in Bs, a \in As, n \in Ns, w \in BOOLEAN :
         /\ b \subseteq 1..L
         /\ acknowledged' = w
         /\ op' = "bulk_update"
         /\ items' = Input(L)
         /\ bad' = b
         /\ src' = "list"
         /\ rest' = <<>>
         /\ arg_batch_size' = a
         /\ n_attempts' = n
         /\ batch_size' = EffectiveBatchSize(a, self_batch_size)
         /\ chunks' = BulkUpdateChunks(items', batch_size')
    /\ results' = None
    /\ results_obj' = 0
    /\ err' = "none"
    /\ ForLoop(chunks', 1, None)

BulkUpdateCall ==
    /\ pc = "idle"
    /\ cls = "DBStorage"
    /\ BulkUpdateEnter(0..MaxLen, SUBSET (1..MaxLen), BatchArgs, 0..MaxAttempts)
    /\ UNCHANGED << parts, config, items_counter, ops, store, calls, map_fails, n_logged,
                    call_no, prev >>

\* bulk_update with the mapping moved inside the try block: a mapping
\* failure is caught, counted and retried like a store failure.
BulkUpdateAttempt_MapInTry ==
    /\ pc = "attempt"
    /\ op = "bulk_update"
    /\ IF attempt < n_attempts
       THEN LET m == map_batch(kind, bad, batch, <<>>, 0) IN
            /\ items_counter' = items_counter + m.piped
            /\ IF m.ok
               THEN /\ batch' = m.ops
                    /\ ops' = m.ops
                    /\ pc' = "exec"
                    /\ UNCHANGED << ci, attempt, ret, err, map_fails, n_logged, results, results_obj, prev >>
               ELSE /\ map_fails' = Append(map_fails, ci)
                    /\ Except(m.err)
                    /\ UNCHANGED << batch, ops >>
       ELSE /\ ForLoop(chunks, ci + 1, results)
            /\ UNCHANGED << items_counter, ops, err, map_fails, n_logged, results, results_obj, prev >>
    /\ UNCHANGED << parts, config, call_args, rest, store, calls >>

\* `while attempt < n_attempts:` and the mapping of the batch, which is
\* outside the try block.
BulkUpdateAttempt ==
    /\ pc = "attempt"
    /\ op = "bulk_update"
    /\ IF attempt < n_attempts
       THEN LET m == map_batch(kind, bad, batch, <<>>, 0) IN
            /\ items_counter' = items_counter + m.piped
            /\ IF m.ok
               THEN /\ batch' = m.ops
                    /\ ops' = m.ops
                    /\ pc' = "exec"
                    /\ UNCHANGED << err, map_fails >>
               ELSE /\ pc' = "raised"
                    /\ err' = m.err
                    /\ map_fails' = Append(map_fails, ci)
                    /\ UNCHANGED << batch, ops >>
            /\ UNCHANGED << ci, attempt, ret >>
       ELSE /\ ForLoop(chunks, ci + 1, results)
            /\ UNCHANGED << items_counter, ops, err, map_fails >>
    /\ UNCHANGED << parts, config, call_args, rest, results, results_obj, prev, store, calls, n_logged >>

\* bulk_update that swallows the error of an exhausted group (`break` for
\* `raise exc`) and goes on with the next group.
BulkUpdateExecRaises_Swallow ==
    /\ pc = "exec"
    /\ op = "bulk_update"
    /\ calls' = Append(calls, [chunk |-> ci, ops |-> ops, ok |-> FALSE, merged |-> FALSE,
                               raw |-> UnackResult])
    /\ n_logged' = n_logged + 1
    /\ IF attempt + 1 >= n_attempts
       THEN ForLoop(chunks, ci + 1, results)
       ELSE /\ attempt' = attempt + 1
            /\ pc' = "attempt"
            /\ UNCHANGED << ci, ret, batch >>
    /\ UNCHANGED << parts, config, call_args, items_counter, rest, ops, results, results_obj, prev, store, err,
                    map_fails >>

\* make_bulk_update raises.
BulkUpdateExecRaises ==
    /\ pc = "exec"
    /\ op = "bulk_update"
    /\ calls' = Append(calls, [chunk |-> ci, ops |-> ops, ok |-> FALSE, merged |-> FALSE,
                               raw |-> UnackResult])
    /\ Except("StoreWriteError")
    /\ UNCHANGED << parts, config, call_args, items_counter, rest, batch, ops, store, map_fails >>

\* make_bulk_update returns; the raw result is merged inside the same try.
BulkUpdateExecReturns ==
    /\ pc = "exec"
    /\ op = "bulk_update"
    /\ store' = Append(store, ops)
    /\ \E new \in RawResults(acknowledged, ops, ci) :
         /\ calls' = Append(calls, [chunk |-> ci, ops |-> ops, ok |-> TRUE,
                                    merged |-> ~MergeRaises(new), raw |-> new])
         /\ IF MergeRaises(new)
            THEN /\ Except("MergeError")
                 /\ UNCHANGED batch
            ELSE /\ MergeInPlace(format_bulk_update_results(results, new))
                 /\ n_logged' = n_logged
                 /\ err' = err
                 /\ ForLoop(chunks, ci + 1, results')
    /\ UNCHANGED << parts, config, call_args, items_counter, rest, ops, map_fails >>

\* ----------------------------------------------------------- persist_many
\* The head of persist_many, up to the first group: the arguments are drawn
\* from the given sets.
PersistManyEnter(Ls, Bs, As, Ns) ==
    /\ \E L \in Ls, b \in Bs, a \in As, n \in Ns, s \in {"list", "iter"}, w \in BOOLEAN :
         /\ b \subseteq 1..L
         /\ acknowledged' = w
         /\ op' = "persist_many"
         /\ items' = Input(L)
         /\ bad' = b
         /\ src' = s
         /\ arg_batch_size' = a
         /\ n_attempts' = n
         /\ batch_size' = EffectiveBatchSize(a, self_batch_size)
         /\ IF IsNone(batch_size')
            THEN /\ chunks' = <<>>
                 /\ rest' = <<>>
                 /\ pc' = "raised"
                 /\ err' = "TypeError"
                 /\ UNCHANGED << ci, attempt, batch, ret >>
            ELSE /\ chunks' = PersistManyChunks(items', batch_size')
                 /\ rest' = IF s = "iter" /\ PersistManyUnchunked(batch_size')
                            THEN items' ELSE <<>>
                 /\ err' = "none"
                 /\ ForLoop(chunks', 1, None)
    /\ results' = None
    /\ results_obj' = 0

PersistManyCall ==
    /\ pc = "idle"
    /\ cls = "DBPersister"
    /\ PersistManyEnter(0..MaxLen, SUBSET (1..MaxLen), BatchArgs, 0..MaxAttempts)
    /\ UNCHANGED << parts, config, items_counter, ops, store, calls, map_fails, n_logged,
                    call_no, prev >>

\* What `for item in items` of tk__persist_many iterates: the group, or,
\* when the group is the caller's single-pass iterator, what is left of it.
HookSource == IF src = "iter" /\ PersistManyUnchunked(batch_size) THEN rest ELSE batch

\* `while attempt < n_attempts:` and the first half of tk__persist_many,
\* the action hook over the group, inside the try block.
PersistManyAttempt ==
    /\ pc = "attempt"
    /\ op = "persist_many"
    /\ IF attempt < n_attempts
       THEN LET h == hook_all(bad, HookSource, <<>>, 0) IN
            /\ rest' = IF src = "iter" /\ PersistManyUnchunked(batch_size)
                       THEN SubSeq(rest, h.taken + 1, Len(rest)) ELSE rest
            /\ IF h.ok
               THEN /\ ops' = h.ops
                    /\ pc' = "exec"
                    /\ UNCHANGED << ci, attempt, ret, err, map_fails, n_logged, results, results_obj, prev >>
               ELSE /\ map_fails' = Append(map_fails, ci)
                    /\ Except("MappingError")
                    /\ UNCHANGED ops
            /\ UNCHANGED batch
       ELSE /\ ForLoop(chunks, ci + 1, results)
            /\ UNCHANGED << rest, ops, err, map_fails, n_logged, results, results_obj, prev >>
    /\ UNCHANGED << parts, config, call_args, items_counter, store, calls >>

\* bulk_write raises.
PersistManyExecRaises ==
    /\ pc = "exec"
    /\ op = "persist_many"
    /\ calls' = Append(calls, [chunk |-> ci, ops |-> ops, ok |-> FALSE, merged |-> FALSE,
                               raw |-> UnackResult])
    /\ Except("StoreWriteError")
    /\ UNCHANGED << parts, config, call_args, items_counter, rest, batch, ops, store, map_fails >>

\* bulk_write returns; the raw result is merged inside the same try.
PersistManyExecReturns ==
    /\ pc = "exec"
    /\ op = "persist_many"
    /\ store' = Append(store, ops)
    /\ \E new \in RawResults(acknowledged, ops, ci) :
         /\ calls' = Append(calls, [chunk |-> ci, ops |-> ops, ok |-> TRUE,
                                    merged |-> ~MergeRaises(new), raw |-> new])
         /\ IF MergeRaises(new)
            THEN /\ Except("MergeError")
                 /\ UNCHANGED batch
            ELSE /\ MergeInPlace(tk__persist_many_merge_results(results, new))
                 /\ n_logged' = n_logged
                 /\ err' = err
                 /\ ForLoop(chunks, ci + 1, results')
    /\ UNCHANGED << parts, config, call_args, items_counter, rest, ops, map_fails >>

Next ==
    \/ BulkUpdateCall
    \/ BulkUpdateAttempt
    \/ BulkUpdateExecRaises
    \/ BulkUpdateExecReturns
    \/ PersistManyCall
    \/ PersistManyAttempt
    \/ PersistManyExecRaises
    \/ PersistManyExecReturns

Spec == Init /\ [][Next]_vars

\* ------------------------------------------- several calls on one object
\* The arguments of the calls of a sequence of calls.
SeqLens == 0..MaxBatch
SeqBad == {{}}
SeqBatchArgs == {None, Some(1)}
SeqAttempts == {1, 2}

BulkUpdateFirstCall ==
    /\ pc = "idle"
    /\ cls = "DBStorage"
    /\ BulkUpdateEnter(SeqLens, SeqBad, SeqBatchArgs, SeqAttempts)
    /\ UNCHANGED << parts, config, items_counter, ops, store, calls, map_fails, n_logged,
                    call_no, prev >>

BulkUpdateCallAgain ==
    /\ cls = "DBStorage"
    /\ NewCall
    /\ BulkUpdateEnter(SeqLens, SeqBad, SeqBatchArgs, SeqAttempts)

PersistManyFirstCall ==
    /\ pc = "idle"
    /\ cls = "DBPersister"
    /\ PersistManyEnter(SeqLens, SeqBad, SeqBatchArgs, SeqAttempts)
    /\ UNCHANGED << parts, config, items_counter, ops, store, calls, map_fails, n_logged,
                    call_no, prev >>

PersistManyCallAgain ==
    /\ cls = "DBPersister"
    /\ NewCall
    /\ PersistManyEnter(SeqLens, SeqBad, SeqBatchArgs, SeqAttempts)

NextCalls ==
    \/ BulkUpdateFirstCall
    \/ BulkUpdateCallAgain
    \/ BulkUpdateAttempt
    \/ BulkUpdateExecRaises
    \/ BulkUpdateExecReturns
    \/ PersistManyFirstCall
    \/ PersistManyCallAgain
    \/ PersistManyAttempt
    \/ PersistManyExecRaises
    \/ PersistManyExecReturns

SpecCalls == Init /\ [][NextCalls]_vars

\* ------------------------------------------ JSON-lines storage, persister
\* The filepath property without its cache: the path is resolved on every
\* access.
filepath_uncached(c, if_exists, cache, fs, name) ==
    LET inc == c = "JSONLinesPersister" \/ if_exists = "inc"
        fp == make_filepath(fs, inc)
    IN  IF c = "JSONLinesStorage" /\ if_exists = "raise" /\ Exists(fs, fp)
        THEN [ok |-> FALSE, n |-> fp, fs |-> fs, err |-> "FileExistsError"]
        ELSE [ok |-> TRUE, n |-> fp, fs |-> make_path(fs, fp, name), err |-> "none"]

\* The filepath property: the cached path, or the path resolved now (and
\* cached by the caller).  A persister always increments; a storage
\* increments for 'inc', raises for 'raise' on a taken name.
filepath(c, if_exists, cache, fs, name) ==
    IF ~IsNone(cache)
    THEN [ok |-> TRUE, n |-> Val(cache), fs |-> fs, err |-> "none"]
    ELSE LET inc == c = "JSONLinesPersister" \/ if_exists = "inc"
             fp == make_filepath(fs, inc)
         IN  IF c = "JSONLinesStorage" /\ if_exists = "raise" /\ Exists(fs, fp)
             THEN [ok |-> FALSE, n |-> fp, fs |-> fs, err |-> "FileExistsError"]
             ELSE [ok |-> TRUE, n |-> fp, fs |-> make_path(fs, fp, name), err |-> "none"]

\* `with open(self.filepath, 'a') as f: f.write(json.dumps(item).strip()+"\n")`:
\* the path is resolved, the file opened (and created), the item encoded
\* and its line appended.
append_item(item) ==
    LET p == filepath(jl_cls, jl_if_exists, jl_filepath, jl_fs, jl_filename) IN
    IF ~p.ok
    THEN /\ jl_err' = p.err
         /\ UNCHANGED << jl_filepath, jl_fs >>
    ELSE /\ jl_filepath' = Some(p.n)
         /\ IF p.fs[p.n].type = "dir"
            THEN /\ jl_err' = "IsADirectoryError"
                 /\ jl_fs' = p.fs
            ELSE LET d == dumps(item)
                     old == p.fs[p.n].lines
                 IN  /\ jl_err' = IF d.ok THEN "none" ELSE "TypeError"
                     /\ jl_fs' = [p.fs EXCEPT ![p.n] =
                                     [type |-> "file",
                                      lines |-> IF d.ok THEN Append(old, d.text) ELSE old]]

\* Storage.save: pipe_item counts the item, save_item appends it.
JsonlSave ==
    /\ jl_cls = "JSONLinesStorage"
    /\ Len(jl_given) < MaxLen
    /\ \E item \in PyItems :
         /\ jl_given' = Append(jl_given, item)
         /\ append_item(item)
    /\ jl_counter' = jl_counter + 1
    /\ jl_loaded' = None
    /\ UNCHANGED << bulk_vars, compose_vars, mapper_vars, more_vars, jl_cls, jl_filename, jl_if_exists, jl_fresh >>

\* Persister.persist: inc counts the item, persist_item appends it.
JsonlPersist ==
    /\ jl_cls = "JSONLinesPersister"
    /\ Len(jl_given) < MaxLen
    /\ \E item \in PyItems :
         /\ jl_given' = Append(jl_given, item)
         /\ append_item(item)
    /\ jl_counter' = jl_counter + 1
    /\ jl_loaded' = None
    /\ UNCHANGED << bulk_vars, compose_vars, mapper_vars, more_vars, jl_cls, jl_filename, jl_if_exists, jl_fresh >>

\* load(), iterated to its end: every line of the file at self.filepath,
\* decoded.
JsonlLoad ==
    /\ jl_cls # "none"
    /\ LET p == filepath(jl_cls, jl_if_exists, jl_filepath, jl_fs, jl_filename) IN
       IF ~p.ok
       THEN /\ jl_err' = p.err
            /\ jl_loaded' = None
            /\ UNCHANGED << jl_filepath, jl_fs >>
       ELSE /\ jl_filepath' = Some(p.n)
            /\ jl_fs' = p.fs
            /\ IF p.fs[p.n].type = "file"
               THEN /\ jl_err' = "none"
                    /\ jl_loaded' = Some([i \in 1..Len(p.fs[p.n].lines) |->
                                            loads(p.fs[p.n].lines[i])])
               ELSE /\ jl_err' = IF p.fs[p.n].type = "dir" THEN "IsADirectoryError"
                                 ELSE "FileNotFoundError"
                    /\ jl_loaded' = None
    /\ UNCHANGED << bulk_vars, compose_vars, mapper_vars, more_vars, jl_cls, jl_filename, jl_if_exists, jl_counter, jl_given,
                    jl_fresh >>

\* A new object in a directory where its file name is free, or taken by a
\* file with one line.
InitJsonl ==
    /\ BulkOff
    /\ ComposeOff
    /\ MapperOff
    /\ MoreOff
    /\ \/ jl_cls = "JSONLinesStorage" /\ jl_if_exists \in {"inc", "raise", "append"}
       \/ jl_cls = "JSONLinesPersister" /\ jl_if_exists = "inc"
    /\ jl_filename \in FileNames
    /\ jl_filepath = None
    /\ jl_fresh \in BOOLEAN
    /\ jl_fs = [n \in 0..MaxLen |->
                  IF n = 0 /\ ~jl_fresh
                  THEN [type |-> "file", lines |-> << dumps([k |-> "dict", v |-> 1]).text >>]
                  ELSE Absent]
    /\ jl_counter = 0
    /\ jl_given = <<>>
    /\ jl_loaded = None
    /\ jl_err = "none"

NextJsonl == JsonlSave \/ JsonlPersist \/ JsonlLoad

SpecJsonl == InitJsonl /\ [][NextJsonl]_vars

\* ------------------------------------------------- Composable delegation
InitCompose ==
    /\ BulkOff
    /\ JsonlOff
    /\ MapperOff
    /\ MoreOff
    /\ c_inst \in CompSeqs(MaxComps)
    /\ c_own \in CompSeqs(MaxComps)
    /\ c_base1 \in CompSeqs(1)
    /\ c_base2 \in CompSeqs(1)
    /\ c_grand \in CompSeqs(1)
    /\ c_attr \in LookedUp
    /\ c_out = None

\* obj.<c_attr>, for an attribute the normal lookup does not find.
ComposeGetattr ==
    /\ IsNone(c_out)
    /\ c_out' = Some(_getattr(c_inst, c_own, c_base1, c_base2, c_attr))
    /\ UNCHANGED << bulk_vars, jsonl_vars, mapper_vars, more_vars, c_inst, c_own, c_base1, c_base2, c_grand, c_attr >>

NextCompose == ComposeGetattr

SpecCompose == InitCompose /\ [][NextCompose]_vars

\* ------------------------------------------------ update-action mapper
\* The records: any of the keys, `rating` as a number's text or not.
RecordPairs ==
    {<< "id", << "str", "k" >> >>, << "key", << "str", "k" >> >>,
     << "title", << "str", "a" >> >>, << "rating", << "str", "1" >> >>,
     << "rating", << "str", "abc" >> >>, << "extra", << "str", "e" >> >>}
Records == {d \in SUBSET RecordPairs : \A p, q \in d : p[1] = q[1] => p = q}

InitMapper ==
    /\ BulkOff
    /\ JsonlOff
    /\ ComposeOff
    /\ MoreOff
    /\ m_cls \in {"DBStorage", "MongoStorage"}
    /\ m_model \in Models
    /\ m_count_items \in BOOLEAN
    /\ m_counter = 0
    /\ m_record \in Records
    /\ m_given = m_record
    /\ m_outs = <<>>

\* storage.updater(record) on a DBStorage.
DBStorageUpdaterCall ==
    /\ m_cls = "DBStorage"
    /\ Len(m_outs) < MaxCalls
    /\ LET u == DBStorage_updater(m_count_items, m_counter, m_record) IN
         /\ m_counter' = u.counter
         /\ m_outs' = Append(m_outs, u)
    /\ UNCHANGED << bulk_vars, jsonl_vars, compose_vars, more_vars, m_cls, m_model, m_count_items,
                    m_record, m_given >>

\* storage.updater(record) on a MongoStorage: the record is copied by
\* from_dict, and the copy is what pop changes.
MongoStorageUpdaterCall ==
    /\ m_cls = "MongoStorage"
    /\ Len(m_outs) < MaxCalls
    /\ LET u == MongoStorage_updater(m_model, m_count_items, m_counter, m_record) IN
         /\ m_counter' = u.counter
         /\ m_outs' = Append(m_outs, u)
    /\ UNCHANGED << bulk_vars, jsonl_vars, compose_vars, more_vars, m_cls, m_model, m_count_items,
                    m_record, m_given >>

NextMapper == DBStorageUpdaterCall \/ MongoStorageUpdaterCall

SpecMapper == InitMapper /\ [][NextMapper]_vars

\* ------------------------------------------------------------ FTP storage
FtpSt ==
    [attrs |-> ftp_attrs, dirpath |-> ftp_dirpath, conn |-> ftp_conn, cwd |-> ftp_cwd,
     tree |-> ftp_tree, opened |-> ftp_opened, closed |-> ftp_closed, err |-> "none"]

FtpSet(st) ==
    /\ ftp_attrs' = st.attrs
    /\ ftp_dirpath' = st.dirpath
    /\ ftp_conn' = st.conn
    /\ ftp_cwd' = st.cwd
    /\ ftp_tree' = st.tree
    /\ ftp_opened' = st.opened
    /\ ftp_closed' = st.closed
    /\ ftp_err' = st.err
    /\ ftp_last' = None

\* FTPStorage(host, user, passwd, dirpath=ftp_arg)
FtpConstruct ==
    /\ ftp_state = "new"
    /\ LET st == init_steps(FtpSt, 1, ftp_arg, ftp_readonly) IN
       /\ FtpSet(st)
       /\ ftp_state' = IF st.err = "none" THEN "ready" ELSE "failed"
    /\ UNCHANGED << not_ftp, ftp_arg, ftp_readonly, ftp_log >>

\* storage.set_dirpath(dirpath, create)
FtpSetDirpath ==
    /\ ftp_state = "ready"
    /\ ftp_opened < MaxConns
    /\ \E dirpath \in {None} \cup {Some(d) : d \in DirPaths}, create \in BOOLEAN :
         FtpSet(set_dirpath(FtpSt, dirpath, create, ftp_readonly))
    /\ UNCHANGED << not_ftp, ftp_state, ftp_arg, ftp_readonly, ftp_log >>

\* storage.move(dirpath, create=create)
FtpMove ==
    /\ ftp_state = "ready"
    /\ ftp_opened < MaxConns
    /\ \E dirpath \in DirPaths, create \in BOOLEAN :
         FtpSet(move(FtpSt, dirpath, create, ftp_readonly))
    /\ UNCHANGED << not_ftp, ftp_state, ftp_arg, ftp_readonly, ftp_log >>

\* `with storage:` is entered
FtpEnter ==
    /\ ftp_state = "ready"
    /\ ftp_opened < MaxConns
    /\ FtpSet(FTPStorage_enter(FtpSt))
    /\ UNCHANGED << not_ftp, ftp_state, ftp_arg, ftp_readonly, ftp_log >>

\* `with storage:` is left
FtpExit ==
    /\ ftp_state = "ready"
    /\ ftp_conn = "open"
    /\ FtpSet(FTPStorage_exit(FtpSt))
    /\ UNCHANGED << not_ftp, ftp_state, ftp_arg, ftp_readonly, ftp_log >>

\* storage.save(item, name, dtype), which is save_item(item, name, dtype)
FtpSaveItem ==
    /\ ftp_state = "ready"
    /\ Len(ftp_log) < MaxLen
    /\ \E dtype \in DTypes :
         LET r == FTPStorage_save_item(ftp_conn, ftp_log, dtype) IN
         /\ ftp_log' = r.log
         /\ ftp_err' = r.err
         /\ ftp_last' = Some([dtype |-> dtype, conn |-> ftp_conn, n |-> Len(ftp_log)])
    /\ UNCHANGED << not_ftp, ftp_state, ftp_arg, ftp_attrs, ftp_dirpath, ftp_conn, ftp_cwd,
                    ftp_tree, ftp_readonly, ftp_opened, ftp_closed >>

\* The constructor's dirpath, and a server that has none, one or both of
\* the directories and may refuse to create more.
InitFtp ==
    /\ NotFtpOff
    /\ ftp_state = "new"
    /\ ftp_arg \in {None} \cup {Some(d) : d \in DirPaths}
    /\ ftp_attrs = {}
    /\ ftp_dirpath = None
    /\ ftp_conn = "None"
    /\ ftp_cwd = << >>
    /\ ftp_tree \in {{}, {<< "a" >>}, {<< "a" >>, << "a", "b" >>}}
    /\ ftp_readonly \in BOOLEAN
    /\ ftp_opened = 0
    /\ ftp_closed = 0
    /\ ftp_log = << >>
    /\ ftp_last = None
    /\ ftp_err = "none"

NextFtp == FtpConstruct \/ FtpSetDirpath \/ FtpMove \/ FtpEnter \/ FtpExit \/ FtpSaveItem

SpecFtp == InitFtp /\ [][NextFtp]_vars

\* ----------------------------------------------------------- start requests
\* next() on the generator start_requests() returned
StartRequestsNext ==
    /\ sp_state = "suspended"
    /\ LET r == start_requests_resume(sp_urls, sp_allowed, sp_limit, sp_pos, sp_n,
                                      sp_request, sp_logged) IN
       /\ sp_state' = r.status
       /\ sp_err' = r.err
       /\ sp_pos' = r.pos
       /\ sp_n' = r.n
       /\ sp_request' = r.request
       /\ sp_logged' = r.logged
       /\ sp_out' = IF IsNone(r.yielded) THEN sp_out ELSE Append(sp_out, Val(r.yielded))
    /\ UNCHANGED << not_spider, sp_urls, sp_limit, sp_allowed >>

\* A spider with its start URLs, limit and start_urls_allowed_domains;
\* start_requests() has been called and has returned the generator.
InitSpider ==
    /\ NotSpiderOff
    /\ sp_state = "suspended"
    /\ sp_urls \in UrlLists
    /\ sp_limit \in Limits
    /\ sp_allowed \in {None, Some({}), Some({"in.org"})}
    /\ sp_pos = 0
    /\ sp_n = 0
    /\ sp_request = None
    /\ sp_out = << >>
    /\ sp_logged = << >>
    /\ sp_err = "none"

NextSpider == StartRequestsNext

SpecSpider == InitSpider /\ [][NextSpider]_vars

\* ------------------------------------------------- offsite final-URL filter
ProcessResponse ==
    /\ mw_state = "pending"
    /\ mw_state' = "done"
    /\ mw_out' = process_response(mw_url, mw_allowed, mw_blacklist)
    /\ UNCHANGED << not_mw, mw_url, mw_allowed, mw_blacklist >>

\* A response with its final URL, for a spider with its allowed domains
\* and blacklist.
InitMiddleware ==
    /\ NotMiddlewareOff
    /\ mw_state = "pending"
    /\ mw_url \in FinalUrls
    /\ mw_allowed \in {None, Some({}), Some({"in.org"})}
    /\ mw_blacklist \in Blacklists
    /\ mw_out = "none"

NextMiddleware == ProcessResponse

SpecMiddleware == InitMiddleware /\ [][NextMiddleware]_vars

\* ------------------------------------------------------------ schema cache
\* C.get_schema(*args) for one of the classes
GetSchemaCall ==
    /\ sc_state = "defined"
    /\ Len(sc_calls) < MaxCalls
    /\ \E c \in Classes, args \in SchemaArgs :
         LET r == DocumentMixin_get_schema(sc_schema, sc_fields, c, args) IN
         /\ sc_schema' = r.schemas
         /\ sc_calls' = Append(sc_calls, [cls |-> c, args |-> args, ret |-> r.ret])
    /\ UNCHANGED << not_schema, sc_state, sc_fields >>

\* The classes as defined: Parent with the identity field and perhaps a
\* title, each subclass with the fields of Parent and perhaps one of its own.
InitSchema ==
    /\ NotSchemaOff
    /\ sc_state = "defined"
    /\ \E own \in [Classes -> BOOLEAN] :
         LET parent == {"id"} \cup (IF own["Parent"] THEN {"title"} ELSE {}) IN
         sc_fields = [c \in Classes |->
                         CASE c = "Parent" -> parent
                           [] c = "Child" -> parent \cup (IF own[c] THEN {"year"} ELSE {})
                           [] OTHER -> parent \cup (IF own[c] THEN {"name"} ELSE {})]
    /\ sc_schema = [c \in Classes |-> None]
    /\ sc_calls = << >>

NextSchema == GetSchemaCall

SpecSchema == InitSchema /\ [][NextSchema]_vars

\* ---------------------------------------------------------------- Singleton
\* A call of one of the classes, C(*args, **kwds)
SingletonCall ==
    /\ sg_state = "defined"
    /\ Len(sg_calls) < MaxNew
    /\ \E c \in SingletonClasses, raises \in BOOLEAN :
         LET r == Singleton_call(sg_instance, sg_falsy, c, sg_made + 1, raises) IN
         /\ sg_instance' = r.instances
         /\ sg_made' = IF r.built /\ ~IsNone(r.ret) THEN sg_made + 1 ELSE sg_made
         /\ sg_calls' = Append(sg_calls, [cls |-> c, ret |-> r.ret, built |-> r.built])
    /\ UNCHANGED << not_singleton, sg_state, sg_falsy >>

InitSingleton ==
    /\ NotSingletonOff
    /\ sg_state = "defined"
    /\ sg_falsy \in SUBSET SingletonClasses
    /\ sg_instance = [c \in SingletonClasses |-> None]
    /\ sg_made = 0
    /\ sg_calls = << >>

NextSingleton == SingletonCall

SpecSingleton == InitSingleton /\ [][NextSingleton]_vars

\* ----------------------------------------------------------------- history
\* Executor calls for group i that raised / that returned.
Raised(i) == Len(SelectSeq(calls, LAMBDA c : c.chunk = i /\ ~c.ok))
Returned(i) == Len(SelectSeq(calls, LAMBDA c : c.chunk = i /\ c.ok))
Ended == pc \in {"returned", "raised"}
AllMerged == \A k \in 1..Len(calls) : calls[k].ok => calls[k].merged

RECURSIVE MergedOps(_)
MergedOps(cs) ==
    IF cs = <<>> THEN 0
    ELSE (IF Head(cs).merged THEN Head(cs).raw["nInserted"] ELSE 0) + MergedOps(Tail(cs))

\* ------------------------------------------------------------------ claims

\* C1: retry bound.  With n_attempts >= 1, every record mappable and an
\* executor that raises on every call, a call of bulk_update or persist_many
\* ends with exactly n_attempts executor calls for the first group, raises,
\* and returns no cumulative result.
C1_RetryBound ==
    ( /\ Ended
      /\ err # "TypeError"
      /\ n_attempts >= 1
      /\ bad = {}
      /\ chunks # <<>>
      /\ \A k \in 1..Len(calls) : ~calls[k].ok )
    => ( /\ Raised(1) = n_attempts
         /\ pc = "raised"
         /\ ret = None )

\* C2: in bulk_update at most one executor call per group returns without
\* raising: a group the store accepted is never submitted again, also when
\* merging its raw result fails.
C2_SuccessOnce ==
    op = "bulk_update" =>
        \A i \in 1..Len(chunks) : chunks[i] # <<>> => Returned(i) <= 1

\* C3: in bulk_update, when the executor raises and attempts remain, the
\* failure is logged, the call does not raise, and the next attempt hands the
\* executor the same operation descriptors as the failed one.
C3_RetryUnchanged ==
    op = "bulk_update" =>
        /\ \A k \in 1..(Len(calls) - 1) :
               (calls[k + 1].chunk = calls[k].chunk /\ ~calls[k].ok)
               => calls[k + 1].ops = calls[k].ops
        /\ (pc = "raised" /\ calls # <<>> /\ ~calls[Len(calls)].ok)
           => attempt >= n_attempts
        /\ Len(SelectSeq(calls, LAMBDA c : ~c.ok)) <= n_logged

\* C4: recovery within the bound.  While every record is mappable, every
\* raw result merges and the executor has raised fewer than n_attempts times
\* on the current group, the call has not raised; every group whose executor
\* call returned is behind the loop, and the cumulative result (the returned
\* one, at return) counts its operations.
C4_Recovery ==
    /\ ( /\ op # "none"
         /\ err # "TypeError"
         /\ bad = {}
         /\ AllMerged
         /\ ci \in 1..Len(chunks)
         /\ Raised(ci) < n_attempts )
       => pc # "raised"
    /\ \A k \in 1..Len(calls) : calls[k].merged =>
           /\ calls[k].chunk < ci
           /\ ~IsNone(results)
           /\ Val(results)["nInserted"] = MergedOps(calls)
           /\ (pc = "returned" => ret = results)

\* C5: whenever bulk_update or persist_many returns normally (from a call
\* with at least one record), the executor has returned for every group of
\* the input, and the executor calls were made in the order of the groups.
C5_InOrderNoSkip ==
    (pc = "returned" /\ items # <<>>) =>
        /\ \A i \in 1..Len(chunks) : Returned(i) >= 1
        /\ \A k \in 1..(Len(calls) - 1) : calls[k].chunk <= calls[k + 1].chunk

\* C5 with a positive attempt count.
C5_PositiveAttempts ==
    (pc = "returned" /\ n_attempts >= 1) =>
        /\ \A i \in 1..Len(chunks) : Returned(i) >= 1
        /\ \A k \in 1..(Len(calls) - 1) : calls[k].chunk <= calls[k + 1].chunk

\* Every record of group i is in a bulk write the store holds.
Committed(i) ==
    \A j \in 1..Len(chunks[i]) :
        \E w \in 1..Len(store) : \E o \in 1..Len(store[w]) :
            store[w][o].rec = chunks[i][j].rec

\* The call raised because group ci used up its attempts.
Exhausted ==
    /\ pc = "raised"
    /\ err \in {"StoreWriteError", "MergeError", "MappingError"}
    /\ attempt >= n_attempts

\* C6: when group i uses up its attempts, bulk_update / persist_many raise
\* the error, no executor call has been made for a group after i, and the
\* writes of every group before i are in the store.
C6_FatalAbortsNoRollback ==
    Exhausted =>
        /\ err # "none"
        /\ ret = None
        /\ \A i \in (ci + 1)..Len(chunks) : Raised(i) + Returned(i) = 0
        /\ \A i \in 1..(ci - 1) : Returned(i) >= 1 /\ Committed(i)

C6_Witness ==
    /\ Exhausted
    /\ err = "StoreWriteError"
    /\ op = "bulk_update"
    /\ ci = 2
    /\ Len(chunks) = 3
    /\ Committed(1)

\* C7: in bulk_update a mapping failure reaches the caller at once: the
\* mapping is not tried again, and when the updater raised on a record, no
\* executor call has been made for the record's group or a later one (none
\* at all when the input is not chunked).
C7_MappingFailureImmediate ==
    op = "bulk_update" =>
        /\ map_fails # <<>> =>
               /\ pc = "raised"
               /\ map_fails = << ci >>
               /\ err \in {"MappingError", "RemapError"}
        /\ err = "MappingError" =>
               /\ map_fails # <<>>
               /\ attempt = 0
               /\ \A i \in ci..Len(chunks) : Raised(i) + Returned(i) = 0
               /\ BulkUpdateUnchunked(batch_size) => calls = <<>>

C7_Witness ==
    /\ op = "bulk_update"
    /\ pc = "raised"
    /\ err = "MappingError"
    /\ ci = 2
    /\ Returned(1) = 1
    /\ n_attempts = MaxAttempts

\* C8: in persist_many a failure of the action hook is fatal at once: the
\* hook is not run again for the group and the call has raised.
C8_HookFailureFatal ==
    op = "persist_many" =>
        (map_fails # <<>> => pc = "raised" /\ map_fails = << ci >>)

RECURSIVE Flatten(_)
Flatten(ss) == IF ss = <<>> THEN <<>> ELSE Head(ss) \o Flatten(Tail(ss))

CeilDiv(a, b) == (a + b - 1) \div b

Chunked == op # "none" /\ ~IsNone(batch_size) /\ Val(batch_size) > 0

\* C9: slice_chunks(x, n) with n > 0 yields ceil(L/n) groups, each of size
\* n but the last, whose size is in 1..n; the groups concatenated are the
\* input; an empty input yields no group.
C9_SliceChunks ==
    Chunked =>
        LET n == Val(batch_size)
            g == Len(chunks) IN
        /\ g = CeilDiv(Len(items), n)
        /\ \A i \in 1..(g - 1) : Len(chunks[i]) = n
        /\ g > 0 => Len(chunks[g]) \in 1..n
        /\ Flatten(chunks) = items
        /\ items = <<>> => chunks = <<>>

C9_Witness ==
    /\ Chunked
    /\ Val(batch_size) = 2
    /\ Len(items) = 3
    /\ Len(chunks) = 2
    /\ Len(chunks[2]) = 1

\* C10: the batch_size argument is used when given, the instance default
\* when it is None; a non-positive (in bulk_update: falsy) size makes the
\* whole input the one group, a positive size splits it into groups of that
\* size.
C10_ChunkSizeSelection ==
    (op # "none") =>
        /\ batch_size = (IF arg_batch_size = None THEN self_batch_size
                         ELSE arg_batch_size)
        /\ (op = "bulk_update" /\ IsNone(batch_size)) => chunks = << items >>
        /\ (~IsNone(batch_size) /\ Val(batch_size) <= 0) => chunks = << items >>
        /\ (~IsNone(batch_size) /\ Val(batch_size) > 0) =>
               /\ Len(chunks) = CeilDiv(Len(items), Val(batch_size))
               /\ \A i \in 1..Len(chunks) : Len(chunks[i]) <= Val(batch_size)
               /\ Flatten(chunks) = items

C10_Witness ==
    /\ op = "persist_many"
    /\ arg_batch_size = Some(0)
    /\ self_batch_size = Some(MaxBatch)
    /\ Len(items) = MaxLen
    /\ chunks = << items >>

\* ------------------------------------------------- merged raw results
\* The sum of numeric category k, and the concatenation of list category
\* k, over the raw results merged so far, in the order of the merges.
RECURSIVE SumRaw(_, _)
SumRaw(cs, k) ==
    IF cs = <<>> THEN 0
    ELSE (IF Head(cs).merged THEN Head(cs).raw[k] ELSE 0) + SumRaw(Tail(cs), k)

RECURSIVE CatRaw(_, _)
CatRaw(cs, k) ==
    IF cs = <<>> THEN <<>>
    ELSE (IF Head(cs).merged THEN Head(cs).raw[k] ELSE <<>>) \o CatRaw(Tail(cs), k)

NoneMerged == \A k \in 1..Len(calls) : ~calls[k].merged

\* C11: additive merge.  There is no cumulative result before the first
\* merge; from then on, after every merged group and at return, each
\* numeric category of the cumulative result is the sum of that category
\* over the raw results merged so far (so the first merge starts from zero
\* in every category), and the returned result is the cumulative one.
C11_AdditiveMerge ==
    /\ IsNone(results) <=> NoneMerged
    /\ ~IsNone(results) =>
           /\ DOMAIN Val(results) = Keys
           /\ \A k \in NumKeys : Val(results)[k] = SumRaw(calls, k)
    /\ pc = "returned" => ret = results

\* Two groups with different raw results were merged and the call returned.
C11_Witness ==
    /\ pc = "returned"
    /\ ~IsNone(ret)
    /\ \E j, k \in 1..Len(calls) :
           /\ j < k
           /\ calls[j].merged /\ calls[k].merged
           /\ calls[j].raw["nModified"] > 0
           /\ calls[k].raw["nModified"] > 0
           /\ Val(ret)["nModified"] = calls[j].raw["nModified"] + calls[k].raw["nModified"]

\* C12: the list categories accumulate by concatenation.  After every
\* merged group and at return, writeErrors and writeConcernErrors of the
\* cumulative result are the concatenation, in the order the groups were
\* processed, of the lists of the raw results merged so far.
C12_ListsConcatenate ==
    /\ ~IsNone(results) =>
           \A k \in ListKeys : Val(results)[k] = CatRaw(calls, k)
    /\ (pc = "returned" /\ ~IsNone(ret)) =>
           \A k \in ListKeys : Val(ret)[k] = CatRaw(calls, k)
    /\ \A j \in 1..(Len(calls) - 1) : calls[j].chunk <= calls[j + 1].chunk

\* Two groups that both left write errors were merged and the call returned.
C12_Witness ==
    /\ pc = "returned"
    /\ ~IsNone(ret)
    /\ \E j, k \in 1..Len(calls) :
           /\ calls[j].chunk < calls[k].chunk
           /\ calls[j].merged /\ calls[k].merged
           /\ calls[j].raw["writeErrors"] # <<>>
           /\ calls[k].raw["writeErrors"] # <<>>
           /\ Val(ret)["writeErrors"] = calls[j].raw["writeErrors"] \o calls[k].raw["writeErrors"]

\* The executor returned on every call and reported, acknowledged, as many
\* inserted documents as the group it was handed has operations.
ExecutorAlwaysInserts ==
    \A k \in 1..Len(calls) :
        /\ calls[k].ok
        /\ calls[k].raw = AckResult(calls[k].ops)
        /\ acknowledged

\* C13: end to end.  With every record mappable and an executor that always
\* returns and reports as many inserted documents as the group it received,
\* a bulk_update over N >= 1 records ends by returning a cumulative result
\* whose nInserted is N, whatever the batch size.
C13_EndToEndInsertCount ==
    ( /\ op = "bulk_update"
      /\ Ended
      /\ items # <<>>
      /\ bad = {}
      /\ ExecutorAlwaysInserts )
    => ( /\ pc = "returned"
         /\ ~IsNone(ret)
         /\ Val(ret)["nInserted"] = Len(items) )

\* C13 with a positive attempt count.
C13_PositiveAttempts ==
    ( /\ op = "bulk_update"
      /\ Ended
      /\ items # <<>>
      /\ n_attempts >= 1
      /\ bad = {}
      /\ ExecutorAlwaysInserts )
    => ( /\ pc = "returned"
         /\ ~IsNone(ret)
         /\ Val(ret)["nInserted"] = Len(items) )

\* C14: a non-positive attempt count is a configuration error: a call of
\* bulk_update or persist_many (over at least one record) with
\* n_attempts <= 0 never returns normally, and no call returns normally
\* while some group has had no executor call.
C14_InvalidAttemptsRejected ==
    (op # "none" /\ items # <<>>) =>
        /\ n_attempts <= 0 => pc # "returned"
        /\ pc = "returned" =>
               \A i \in 1..Len(chunks) : \E k \in 1..Len(calls) : calls[k].chunk = i

\* C18: in persist_many a failed group is retried as the same group: every
\* executor call for a group is handed the operations of the same records,
\* in the same order, as the first executor call for that group, whatever
\* the input iterable and the batch size.
C18_RetrySameChunk ==
    op = "persist_many" =>
        \A j, k \in 1..Len(calls) :
            (j < k /\ calls[j].chunk = calls[k].chunk) => calls[k].ops = calls[j].ops

\* C18 for an input that can be iterated again (a list).
C18_Restartable ==
    (op = "persist_many" /\ src = "list") =>
        \A j, k \in 1..Len(calls) :
            (j < k /\ calls[j].chunk = calls[k].chunk) => calls[k].ops = calls[j].ops

\* C17: the cumulative result is owned by one call.  In any sequence of
\* calls on one object: a call has no cumulative result before its first
\* merge; the dict it accumulates in was created by that call and holds
\* exactly the merged raw results of that call's groups; and the dict an
\* earlier call returned still has the content it was returned with.
C17_ResultOwnedByCall ==
    /\ IsNone(results) <=> NoneMerged
    /\ ~IsNone(results) =>
           /\ results_obj = call_no
           /\ \A k \in NumKeys : Val(results)[k] = SumRaw(calls, k)
           /\ \A k \in ListKeys : Val(results)[k] = CatRaw(calls, k)
    /\ (pc = "returned" /\ op # "none") => ret = results
    /\ ~IsNone(prev) => Val(prev).val = Val(prev).snap

\* A second call returned a result of its own while the caller still holds
\* the non-trivial result of the first.
C17_Witness ==
    /\ call_no = 2
    /\ pc = "returned"
    /\ ~IsNone(ret)
    /\ ~IsNone(prev)
    /\ Val(prev).obj = 1
    /\ Val(prev).snap["nInserted"] > 0
    /\ Val(ret)["nInserted"] > 0
    /\ Val(ret) # Val(prev).val

\* Every item given so far is a dict of JSON values, and there is one.
JsonItemsGiven ==
    /\ jl_given # <<>>
    /\ \A i \in 1..Len(jl_given) : jl_given[i].k = "dict"

\* C19: JSON-lines round trip.  For one or more dicts of JSON values saved
\* one after another through one JSONLinesStorage (save) or
\* JSONLinesPersister (persist) whose file name was free: no call raises,
\* the file holds one line per item, and load() yields exactly the items,
\* in order.
C19_JsonLinesRoundTrip ==
    (jl_cls # "none" /\ jl_fresh /\ JsonItemsGiven) =>
        /\ jl_err = "none"
        /\ ~IsNone(jl_filepath)
        /\ jl_fs[Val(jl_filepath)].type = "file"
        /\ Len(jl_fs[Val(jl_filepath)].lines) = Len(jl_given)
        /\ ~IsNone(jl_loaded) => Val(jl_loaded) = jl_given

\* C19 for a file name that ends in a dot and letters.
C19_LetterExtension ==
    (jl_cls # "none" /\ jl_fresh /\ JsonItemsGiven /\ rx_file(jl_filename)) =>
        /\ jl_err = "none"
        /\ ~IsNone(jl_filepath)
        /\ jl_fs[Val(jl_filepath)].type = "file"
        /\ Len(jl_fs[Val(jl_filepath)].lines) = Len(jl_given)
        /\ ~IsNone(jl_loaded) => Val(jl_loaded) = jl_given

\* Component i of a level answers the lookup: it is named by the attribute
\* or has it.
Answers(seq, level, i) == CompNames[level][i] = c_attr \/ c_attr \in seq[i]
AnswersIn(seq, level) == {i \in 1..Len(seq) : Answers(seq, level, i)}

\* The components of each level, and the levels that come before one.
LevelSeq(level) ==
    CASE level = "instance" -> c_inst
      [] level = "own" -> c_own
      [] level = "base1" -> c_base1
      [] OTHER -> c_base2
Before(level) ==
    CASE level = "instance" -> {}
      [] level = "own" -> {"instance"}
      [] level = "base1" -> {"instance", "own"}
      [] OTHER -> {"instance", "own", "base1"}

\* C20: delegation order.  A lookup of an attribute the host does not
\* define is answered by the first component, in declared order, of the
\* first level that has an answering component, the levels being the
\* instance-level components, then the class-level components of the
\* object's class, then those of the classes of __bases__ in declared
\* order; the answer is the component itself when it is named by the
\* attribute, else its attribute; when no component of these levels
\* answers, the lookup raises AttributeError.
C20_DelegationOrder ==
    ~IsNone(c_out) =>
        LET r == Val(c_out)
            levels == {"instance", "own", "base1", "base2"}
        IN  /\ r.ok <=> \E l \in levels : AnswersIn(LevelSeq(l), l) # {}
            /\ ~r.ok => r.how = "AttributeError"
            /\ r.ok =>
                   /\ r.level \in levels
                   /\ r.idx \in AnswersIn(LevelSeq(r.level), r.level)
                   /\ \A i \in AnswersIn(LevelSeq(r.level), r.level) : r.idx <= i
                   /\ \A l \in Before(r.level) : AnswersIn(LevelSeq(l), l) = {}
                   /\ r.how = IF CompNames[r.level][r.idx] = c_attr
                              THEN "component" ELSE "attribute"

\* An instance-level component answered although class-level components
\* of the class and of a base class answer too, and it was not the first
\* declared instance-level component.
C20_Witness ==
    /\ ~IsNone(c_out)
    /\ Val(c_out).ok
    /\ Val(c_out).level = "instance"
    /\ Val(c_out).idx = 2
    /\ AnswersIn(c_own, "own") # {}
    /\ AnswersIn(c_base2, "base2") # {}

\* Every value of the record can be coerced by its field's schema.
Coercible == \A p \in m_given : ~CoerceRaises(p[1], p[2])

\* What from_dict keeps of the record, coerced, without the identity field.
Payload ==
    {<< p[1], coerce(p[1], p[2]) >> :
        p \in {q \in m_given : q[1] \in Fields(m_model) /\ q[1] # IdName(m_model)}}

\* C15: MongoStorage.updater without custom updater, on a record whose
\* values can be coerced: for a record that holds the model's identity
\* field it returns an upsert descriptor whose filter is
\* {identity field: value} and whose '$set' payload is the record's other
\* schema fields; it raises only for a record without the identity field.
C15_UpsertDescriptor ==
    (m_cls = "MongoStorage" /\ Coercible) =>
        \A i \in 1..Len(m_outs) :
            /\ IdName(m_model) \in DictKeys(m_given) =>
                   /\ m_outs[i].ok
                   /\ m_outs[i].filter = {<< IdName(m_model), Get(m_given, IdName(m_model)) >>}
                   /\ m_outs[i].set = Payload
            /\ ~m_outs[i].ok => IdName(m_model) \notin DictKeys(m_given)

\* C15 for a model whose identity field is in its schema.
C15_IdentityInSchema ==
    (m_cls = "MongoStorage" /\ Coercible /\ IdName(m_model) \in get_schema(m_model)) =>
        \A i \in 1..Len(m_outs) :
            /\ IdName(m_model) \in DictKeys(m_given) =>
                   /\ m_outs[i].ok
                   /\ m_outs[i].filter = {<< IdName(m_model), Get(m_given, IdName(m_model)) >>}
                   /\ m_outs[i].set = Payload
            /\ ~m_outs[i].ok => IdName(m_model) \notin DictKeys(m_given)

\* C16 as claimed: the mapper is free of side effects.  Calls of updater
\* leave the record and the storage's item counter as they were, and calls
\* on equal records return equal descriptors.
C16_MapperPure ==
    m_cls # "none" =>
        /\ m_record = m_given
        /\ m_counter = 0
        /\ \A i, j \in 1..Len(m_outs) :
               [m_outs[i] EXCEPT !.counter = 0] = [m_outs[j] EXCEPT !.counter = 0]

\* The calls that got as far as pipe_item: all of a DBStorage, those of a
\* MongoStorage in which from_dict did not raise.
Piped == {i \in 1..Len(m_outs) : m_outs[i].err # "ValueError"}

\* C16, amended: the mapper's only side effect is the item count.  Calls of
\* updater leave the record as it was; each call that gets as far as
\* pipe_item adds one to the storage's item counter when count_items is
\* set, and nothing otherwise; calls on equal records return equal
\* descriptors.
C16_MapperCountsOnly ==
    m_cls # "none" =>
        /\ m_record = m_given
        /\ m_counter = IF m_count_items THEN Cardinality(Piped) ELSE 0
        /\ \A i, j \in 1..Len(m_outs) :
               [m_outs[i] EXCEPT !.counter = 0] = [m_outs[j] EXCEPT !.counter = 0]

\* Two calls on a counting MongoStorage returned descriptors.
C16_Witness ==
    /\ m_cls = "MongoStorage"
    /\ m_count_items
    /\ Len(m_outs) = 2
    /\ m_outs[1].ok /\ m_outs[2].ok
    /\ m_outs[1].set # {}
    /\ m_counter = 2

\* ------------------------------------------------------------ FTP storage
\* C21: FTPStorage.save_item accepts exactly 'text' and 'binary', in any
\* letter case: called on an open connection, 'binary' issues one binary
\* STOR and returns, 'text' issues one line STOR and returns, and any other
\* dtype raises ValueError without a STOR.
C21_SaveItemDtypes ==
    (~IsNone(ftp_last) /\ Val(ftp_last).conn = "open") =>
        LET dtype == lower(Val(ftp_last).dtype)
            issued == SubSeq(ftp_log, Val(ftp_last).n + 1, Len(ftp_log))
        IN  CASE dtype = "binary" -> issued = << "storbinary" >> /\ ftp_err = "none"
              [] dtype = "text" -> issued = << "storlines" >> /\ ftp_err = "none"
              [] OTHER -> issued = << >> /\ ftp_err = "ValueError"

\* C27: constructing an FTPStorage with a dirpath never reads an attribute
\* that is not assigned yet: the constructor connects, moves to the
\* directory (created if the server allows it) and closes the connection
\* it opened, whether the move succeeded or raised.
C27_InitOrder ==
    (ftp_state \in {"ready", "failed"} /\ ~IsNone(ftp_arg)) =>
        /\ "dirpath" \in ftp_attrs
        /\ ftp_state = "ready" => Val(ftp_arg) \in ftp_tree
        /\ ftp_state = "failed" =>
               ftp_err = "error_perm" /\ ftp_opened = 1 /\ ftp_closed = 1

\* ----------------------------------------------------------- start requests
\* The start URLs start_urls_allowed_domains accepts
Accepted(i) == IsNone(sp_allowed) \/ is_url_in_domains(sp_urls[i], sp_allowed)

\* C22: whenever the spider's limit is set (an integer >= 0), the generator
\* yields at most limit requests; a start URL rejected by
\* start_urls_allowed_domains is skipped and does not count.
C22_RequestLimit ==
    /\ ~IsNone(sp_limit) => Len(sp_out) <= Val(sp_limit)
    /\ \A i \in 1..Len(sp_out) : Accepted(sp_out[i].url)
    /\ sp_n = Cardinality({i \in 1..sp_pos : Accepted(i)})

\* C22 for a limit of at least one
C22_PositiveLimit ==
    (~IsNone(sp_limit) /\ Val(sp_limit) > 0) => Len(sp_out) <= Val(sp_limit)

\* C29: every request yielded was made from the start URL of the iteration
\* that yields it, so no URL yields twice and no request is yielded twice;
\* a URL for which make_request raises is logged and yields nothing, and
\* the generator goes on.
C29_YieldsOwnRequest ==
    /\ \A i \in 1..Len(sp_out) : sp_out[i].request = sp_out[i].url
    /\ \A i, j \in 1..Len(sp_out) :
          i # j => sp_out[i].request # sp_out[j].request /\ sp_out[i].url # sp_out[j].url
    /\ \A i \in 1..Len(sp_logged) :
          /\ sp_urls[sp_logged[i]].fails
          /\ \A j \in 1..Len(sp_out) : sp_out[j].url # sp_logged[i]
    /\ sp_err # "UnboundLocalError"

\* ------------------------------------------------- offsite final-URL filter
\* The response's URL is blacklisted: it equals a string entry or a regex
\* entry is found in it.
Blacklisted ==
    \E i \in 1..Len(Val(mw_blacklist)) :
        LET e == Val(mw_blacklist)[i] IN
        IF e.kind = "str" THEN e.url = mw_url ELSE search(e.pat, mw_url)

\* C23: with a blacklist of URL strings and compiled regexes,
\* process_response raises IgnoreRequest when the final URL is outside the
\* allowed domains, equals a string entry or matches a regex entry, and
\* otherwise returns the response; it raises no other error.
C23_OffsiteFinalUrl ==
    (mw_state = "done" /\ ~IsNone(mw_blacklist)) =>
        mw_out = IF ~is_url_in_domains(mw_url, mw_allowed) \/ Blacklisted
                 THEN "IgnoreRequest" ELSE "response"

\* C23 for a blacklist of compiled regexes only
C23_RegexOnly ==
    (/\ mw_state = "done"
     /\ ~IsNone(mw_blacklist)
     /\ \A i \in 1..Len(Val(mw_blacklist)) : Val(mw_blacklist)[i].kind = "regex") =>
        mw_out = IF ~is_url_in_domains(mw_url, mw_allowed) \/ Blacklisted
                 THEN "IgnoreRequest" ELSE "response"

\* ---------------------------------------------------- counting and chunks
\* C24: when bulk_update (with at least one attempt allowed) returns
\* normally, _items_counter has grown by the number of input records: each
\* record was piped once, however many attempts failed before its group
\* was written.
C24_CountedOnce ==
    (op = "bulk_update" /\ pc = "returned" /\ n_attempts >= 1) =>
        items_counter = Len(items)

\* C24 for a call in which no executor call raised
C24_NoRetry ==
    (op = "bulk_update" /\ pc = "returned" /\ n_attempts >= 1
        /\ \A k \in 1..Len(calls) : calls[k].ok) =>
        items_counter = Len(items)

\* C25: the store's bulk write is never invoked with zero operation
\* descriptors, in bulk_update and in persist_many, whatever the input and
\* the batch size.
C25_NonEmptyChunk ==
    \A k \in 1..Len(calls) : calls[k].ops # << >>

\* C25 for a list cut into groups by a positive batch size
C25_ChunkedList ==
    (Chunked /\ src = "list") => \A k \in 1..Len(calls) : calls[k].ops # << >>

\* ------------------------------------------------------ file path stability
\* The directory as the object found it, and the lines its save calls have
\* written: one for every item given that json could encode.
DirAtFirst ==
    [n \in DOMAIN jl_fs |->
        IF n = 0 /\ ~jl_fresh
        THEN [type |-> "file", lines |-> << dumps([k |-> "dict", v |-> 1]).text >>]
        ELSE Absent]

Encoded == SelectSeq(jl_given, LAMBDA g : dumps(g).ok)
Written == [i \in 1..Len(Encoded) |-> dumps(Encoded[i]).text]

\* C26: a JSONLinesStorage / JSONLinesPersister resolves its file path at
\* most once.  While no path is resolved nothing is written; once it is,
\* every line written is in the file at that one path, in order, behind
\* what the file held, and no other path is touched; a path resolved by
\* incrementing did not exist before.
C26_FilePathStable ==
    jl_cls # "none" =>
        IF IsNone(jl_filepath) THEN jl_fs = DirAtFirst
        ELSE LET fp == Val(jl_filepath) IN
             /\ \A n \in DOMAIN jl_fs \ {fp} : jl_fs[n] = DirAtFirst[n]
             /\ jl_fs[fp].type = "file" => jl_fs[fp].lines = DirAtFirst[fp].lines \o Written
             /\ jl_fs[fp].type # "file" =>
                    DirAtFirst[fp].type = "absent" /\ jl_fs[fp].lines = << >>
             /\ (jl_cls = "JSONLinesPersister" \/ jl_if_exists = "inc") =>
                    DirAtFirst[fp].type = "absent"

\* An incrementing object has appended two items to one file: the file
\* exists from the first save on, the second save finds the name taken.
C26_Witness ==
    /\ jl_if_exists = "inc"
    /\ Len(Written) >= 2
    /\ ~IsNone(jl_filepath)
    /\ jl_fs[Val(jl_filepath)].type = "file"
    /\ Len(jl_fs[Val(jl_filepath)].lines) >= 2

\* ------------------------------------------------------------ schema cache
NoArgs == \A i \in 1..Len(sc_calls) : sc_calls[i].args = {}

\* C28: get_schema() on a class returns a schema with an entry for each
\* non-ignored field of that class, whatever classes get_schema was called
\* on before; a schema computed for one class is never the answer for a
\* class with other fields.
C28_SchemaPerClass ==
    NoArgs =>
        \A i \in 1..Len(sc_calls) :
            sc_calls[i].ret = sc_fields[sc_calls[i].cls] \ {"_id", "id"}

\* C28 while get_schema has not been called on the parent class
C28_ParentNotCached ==
    (NoArgs /\ \A i \in 1..Len(sc_calls) : sc_calls[i].cls # "Parent") =>
        \A i \in 1..Len(sc_calls) :
            sc_calls[i].ret = sc_fields[sc_calls[i].cls] \ {"_id", "id"}

\* ---------------------------------------------------------------- Singleton
\* The calls of class c that returned
ReturnedCalls(c) == {i \in 1..Len(sg_calls) : sg_calls[i].cls = c /\ ~IsNone(sg_calls[i].ret)}

\* C30: for a class with the metaclass Singleton, every call returns the
\* object its first call returned, and at most one call of the class
\* constructs an object.
C30_SingleInstance ==
    \A c \in SingletonClasses :
        /\ \A i, j \in ReturnedCalls(c) : sg_calls[i].ret = sg_calls[j].ret
        /\ Cardinality({i \in ReturnedCalls(c) : sg_calls[i].built}) <= 1

\* C30 for classes whose instances are true in a boolean context
C30_TruthyInstances ==
    \A c \in SingletonClasses \ sg_falsy :
        /\ \A i, j \in ReturnedCalls(c) : sg_calls[i].ret = sg_calls[j].ret
        /\ Cardinality({i \in ReturnedCalls(c) : sg_calls[i].built}) <= 1
====
